---- MODULE Spec2Model ----
(***************************************************************************)
(* PocketBase MCP server: the error-classification layer                   *)
(* (services/pocketbase), the output formatters and the tool handlers.     *)
(*                                                                         *)
(* Conventions.                                                            *)
(*  - A JavaScript string is a sequence of pieces (TLA+ strings); "" is    *)
(*    <<>>, concatenation is \o, s.includes(p) holds when p is a piece.    *)
(*    Pieces are cut so that a searched word is always a piece of its own. *)
(*  - An optional value is a sequence of length 0 (absent/undefined) or 1. *)
(*  - A JavaScript value that can be thrown, caught or returned as an      *)
(*    error envelope is a record of one fixed shape (Val below): the       *)
(*    fields that a given class does not have hold their empty value.      *)
(***************************************************************************)
EXTENDS Integers, Sequences, FiniteSets, TLC

\* ------------------------------------------------------------------------
\* constants.ts
\* ------------------------------------------------------------------------

MAX_RESPONSE_SIZE == 25000

DEFAULT_FORMAT == "toml"

ErrorCodes ==
  [ CONNECTION_ERROR  |-> "CONNECTION_ERROR",
    AUTH_REQUIRED     |-> "AUTH_REQUIRED",
    AUTH_FAILED       |-> "AUTH_FAILED",
    NOT_FOUND         |-> "NOT_FOUND",
    VALIDATION_ERROR  |-> "VALIDATION_ERROR",
    PERMISSION_DENIED |-> "PERMISSION_DENIED",
    RATE_LIMITED      |-> "RATE_LIMITED",
    SERVER_ERROR      |-> "SERVER_ERROR" ]

ErrorCode == { ErrorCodes[k] : k \in DOMAIN ErrorCodes }

OutputFormat == {"toml", "json"}

\* ------------------------------------------------------------------------
\* JavaScript values seen by the error layer
\* ------------------------------------------------------------------------

None == <<>>

Some(x) == <<x>>

\* The value of an `error` property: null, a string or an object.  `keys`
\* are the object's own keys; code/message/suggestion/fieldErrors are the
\* values under those keys (empty when the key is not there).
NoErrObj ==
  [ t |-> "object", keys |-> {}, code |-> "", message |-> <<>>,
    suggestion |-> <<>>, fieldErrors |-> None ]

\* An empty response body of a ClientResponseError ({}).
NoData == [ message |-> None, data |-> None ]

\* cls            the class: instanceof TypeError / ClientResponseError /
\*                Error, a plain object, or a primitive
\* message        Error.message, or the text of a string primitive
\* status, data   ClientResponseError.status and .data (the response body)
\* originalError  what a ClientResponseError wraps, when it wraps a failure
\*                of fetch itself
\* error          the `error` property, when the value has one
Val(cls, message, status, data, originalError, error) ==
  [ cls |-> cls, message |-> message, status |-> status, data |-> data,
    originalError |-> originalError, error |-> error ]

InstanceOfError(v) == v.cls \in {"Error", "TypeError", "ClientResponseError"}

TypeOfObject(v) == v.cls \notin {"String", "Undefined"}

\* s.includes(p)
Includes(s, p) == \E i \in 1..Len(s) : s[i] = p

\* String(value) for a value that is not an Error
StringOf(v) ==
  CASE v.cls = "String"    -> v.message
    [] v.cls = "Null"      -> <<"null">>
    [] v.cls = "Undefined" -> <<"undefined">>
    [] OTHER               -> <<"[object Object]">>

\* A completed call: the value returned, or the value thrown.
Return(v) == [ threw |-> FALSE, v |-> v ]

Throw(v) == [ threw |-> TRUE, v |-> v ]

\* The TypeError the runtime raises for `'code' in null`.
InOperatorTypeError ==
  Val("TypeError", <<"Cannot use 'in' operator to search for 'code' in null">>,
      0, NoData, None, None)

\* ------------------------------------------------------------------------
\* services/pocketbase: createErrorResponse, isErrorResponse,
\* handlePocketBaseError
\* ------------------------------------------------------------------------

\* JavaScript truthiness of an optional string: defined and not "".
TruthyStr(o) == o # None /\ o[1] # <<>>

\* { error: { code, message, ...(suggestion && { suggestion }),
\*            ...(fieldErrors && { fieldErrors }) } }
createErrorResponse(code, message, suggestion, fieldErrors) ==
  Val("Object", <<>>, 0, NoData, None,
      Some([ t |-> "object",
             keys |-> {"code", "message"}
                        \cup (IF TruthyStr(suggestion) THEN {"suggestion"} ELSE {})
                        \cup (IF fieldErrors # None THEN {"fieldErrors"} ELSE {}),
             code |-> code,
             message |-> message,
             suggestion |-> IF TruthyStr(suggestion) THEN suggestion[1] ELSE <<>>,
             fieldErrors |-> fieldErrors ]))

\* The type guard, evaluated left to right with short-circuit &&.  The
\* result is Return(TRUE), Return(FALSE), or the TypeError that
\* `'code' in null` raises (typeof null is 'object').
isErrorResponse(value) ==
  IF ~TypeOfObject(value) THEN Return(FALSE)
  ELSE IF value.cls = "Null" THEN Return(FALSE)
  ELSE IF value.error = None THEN Return(FALSE)
  ELSE IF value.error[1].t \notin {"object", "null"} THEN Return(FALSE)
  ELSE IF value.error[1].t = "null" THEN Throw(InOperatorTypeError)
  ELSE IF "code" \notin value.error[1].keys THEN Return(FALSE)
  ELSE Return("message" \in value.error[1].keys)

\* error instanceof TypeError && error.message.includes('fetch')
IsConnectionError(error) ==
  error.cls = "TypeError" /\ Includes(error.message, "fetch")

\* `${process.env.POCKETBASE_URL}`
UrlText(url) == IF url = None THEN "undefined" ELSE url[1]

ConnectionErrorResponse(url) ==
  createErrorResponse(
    ErrorCodes.CONNECTION_ERROR,
    <<"Cannot connect to PocketBase server: ", UrlText(url)>>,
    Some(<<"Check that PocketBase is running and POCKETBASE_URL is correct">>),
    None)

\* MessageOr ignoring the message of the body.
MessageOr_Fallback(data, fallback) == fallback

\* data?.message || fallback
MessageOr(data, fallback) ==
  IF TruthyStr(data.message) THEN data.message[1] ELSE fallback

\* FormattedFieldErrors keeping the first field only.
FormattedFieldErrors_First(data) ==
  IF data.data = None THEN None
  ELSE Some([ i \in 1..(IF Len(data.data[1]) = 0 THEN 0 ELSE 1) |->
                [ k |-> data.data[1][i].k, v |-> data.data[1][i].v.message ] ])

\* fieldErrors ? Object.fromEntries(Object.entries(fieldErrors)
\*                 .map(([k, v]) => [k, v.message])) : undefined
\* A body's data is a sequence of entries [k |-> field, v |-> [message]].
FormattedFieldErrors(data) ==
  IF data.data = None THEN None
  ELSE Some([ i \in 1..Len(data.data[1]) |->
                [ k |-> data.data[1][i].k, v |-> data.data[1][i].v.message ] ])

\* StatusResponse without its case 429: the status falls to the default.
StatusResponse_No429(status, data) ==
  CASE status = 400 ->
         createErrorResponse(ErrorCodes.VALIDATION_ERROR,
           MessageOr(data, <<"Invalid request data">>),
           Some(<<"Check the input parameters and try again">>),
           FormattedFieldErrors(data))
    [] status = 401 ->
         createErrorResponse(ErrorCodes.AUTH_FAILED,
           <<"Authentication failed: Invalid credentials">>,
           Some(<<"Check email and password, then try again">>),
           None)
    [] status = 403 ->
         createErrorResponse(ErrorCodes.PERMISSION_DENIED,
           MessageOr(data, <<"Permission denied">>),
           Some(<<"You do not have permission to perform this operation. Check collection rules or authenticate with appropriate credentials.">>),
           None)
    [] status = 404 ->
         createErrorResponse(ErrorCodes.NOT_FOUND,
           MessageOr(data, <<"Resource not found">>),
           Some(<<"Check that the collection and record ID are correct">>),
           None)
    [] OTHER ->
         createErrorResponse(ErrorCodes.SERVER_ERROR,
           MessageOr(data, <<"Server error (", ToString(status), ")">>),
           Some(<<"Check PocketBase server logs for details">>),
           None)

\* The switch over error.status.
StatusResponse(status, data) ==
  CASE status = 400 ->
         createErrorResponse(ErrorCodes.VALIDATION_ERROR,
           MessageOr(data, <<"Invalid request data">>),
           Some(<<"Check the input parameters and try again">>),
           FormattedFieldErrors(data))
    [] status = 401 ->
         createErrorResponse(ErrorCodes.AUTH_FAILED,
           <<"Authentication failed: Invalid credentials">>,
           Some(<<"Check email and password, then try again">>),
           None)
    [] status = 403 ->
         createErrorResponse(ErrorCodes.PERMISSION_DENIED,
           MessageOr(data, <<"Permission denied">>),
           Some(<<"You do not have permission to perform this operation. Check collection rules or authenticate with appropriate credentials.">>),
           None)
    [] status = 404 ->
         createErrorResponse(ErrorCodes.NOT_FOUND,
           MessageOr(data, <<"Resource not found">>),
           Some(<<"Check that the collection and record ID are correct">>),
           None)
    [] status = 429 ->
         createErrorResponse(ErrorCodes.RATE_LIMITED,
           <<"Rate limit exceeded">>,
           Some(<<"Wait a moment and try again">>),
           None)
    [] OTHER ->
         createErrorResponse(ErrorCodes.SERVER_ERROR,
           MessageOr(data, <<"Server error (", ToString(status), ")">>),
           Some(<<"Check PocketBase server logs for details">>),
           None)

\* error instanceof Error ? error.message : String(error)
GenericResponse(error) ==
  createErrorResponse(
    ErrorCodes.SERVER_ERROR,
    IF InstanceOfError(error) THEN error.message ELSE StringOf(error),
    Some(<<"An unexpected error occurred">>),
    None)

\* handlePocketBaseError without the passthrough of envelopes.
handlePocketBaseError_NoPassthrough(error, url) ==
  IF IsConnectionError(error) THEN Return(ConnectionErrorResponse(url))
  ELSE IF error.cls = "ClientResponseError"
    THEN Return(StatusResponse(error.status, error.data))
  ELSE Return(GenericResponse(error))

\* handlePocketBaseError with the passthrough of envelopes tried first.
handlePocketBaseError_EnvelopeFirst(error, url) ==
  IF isErrorResponse(error).threw THEN isErrorResponse(error)
  ELSE IF isErrorResponse(error).v THEN Return(error)
  ELSE IF IsConnectionError(error) THEN Return(ConnectionErrorResponse(url))
  ELSE IF error.cls = "ClientResponseError"
    THEN Return(StatusResponse(error.status, error.data))
  ELSE Return(GenericResponse(error))

\* The four rules in the order the function tries them; url is
\* process.env.POCKETBASE_URL.  The result is the envelope returned, or the
\* value thrown while classifying.
handlePocketBaseError(error, url) ==
  IF IsConnectionError(error) THEN Return(ConnectionErrorResponse(url))
  ELSE IF error.cls = "ClientResponseError"
    THEN Return(StatusResponse(error.status, error.data))
  ELSE IF isErrorResponse(error).threw THEN isErrorResponse(error)
  ELSE IF isErrorResponse(error).v THEN Return(error)
  ELSE Return(GenericResponse(error))

\* ------------------------------------------------------------------------
\* Renderable values and rendered text
\* ------------------------------------------------------------------------

\* A value handed to format(): t is its JavaScript kind.  A string is the
\* pieces s followed by pad further characters (a long payload is not
\* spelled out); a date holds its ISO-8601 text in s; an object's kids are
\* its entries [k |-> key, v |-> value] in insertion order; an array's kids
\* are its elements.
JV(t, n, b, s, pad, kids) ==
  [ t |-> t, n |-> n, b |-> b, s |-> s, pad |-> pad, kids |-> kids ]

JNull == JV("null", 0, FALSE, <<>>, 0, <<>>)

JUndefined == JV("undefined", 0, FALSE, <<>>, 0, <<>>)

JBool(b) == JV("boolean", 0, b, <<>>, 0, <<>>)

JNum(n) == JV("number", n, FALSE, <<>>, 0, <<>>)

JStr(s) == JV("string", 0, FALSE, s, 0, <<>>)

JLongStr(s, pad) == JV("string", 0, FALSE, s, pad, <<>>)

JDate(iso) == JV("date", 0, FALSE, <<iso>>, 0, <<>>)

JArr(xs) == JV("array", 0, FALSE, <<>>, 0, xs)

JObj(entries) == JV("object", 0, FALSE, <<>>, 0, entries)

Entry(k, v) == [ k |-> k, v |-> v ]

\* Rendered text: a sequence of chunks, each a literal s followed by pad
\* characters that are not spelled out (indentation, long payloads).
Lit(s) == << [ s |-> s, pad |-> 0 ] >>

Fill(n) == IF n = 0 THEN <<>> ELSE << [ s |-> "", pad |-> n ] >>

TextOf(str) == [ i \in 1..Len(str) |-> [ s |-> str[i], pad |-> 0 ] ]

RECURSIVE TextLength(_)
\* text.length: the sum of the chunks' lengths (summed by halves).
TextLength(text) ==
  IF text = <<>> THEN 0
  ELSE IF Len(text) = 1 THEN Len(text[1].s) + text[1].pad
  ELSE LET mid == Len(text) \div 2 IN
       TextLength(SubSeq(text, 1, mid)) + TextLength(SubSeq(text, mid + 1, Len(text)))

RECURSIVE Join(_, _)
\* parts.join(sep)
Join(parts, sep) ==
  IF parts = <<>> THEN <<>>
  ELSE IF Len(parts) = 1 THEN parts[1]
  ELSE parts[1] \o sep \o Join(Tail(parts), sep)

\* text.includes(literal), for a literal that is rendered as one chunk
TextIncludes(text, lit) == \E i \in 1..Len(text) : text[i].s = lit

\* ------------------------------------------------------------------------
\* formatters/json.ts: JSON.stringify(data, null, 2)
\* ------------------------------------------------------------------------

\* A string between double quotes.
Quoted(v) == Lit("\"") \o TextOf(v.s) \o Fill(v.pad) \o Lit("\"")

RECURSIVE JsonValue(_, _)
\* The rendering of a value whose first line starts at indentation ind.
\* An undefined entry of an object is left out; an undefined element of an
\* array is rendered as null; a date is rendered by its toJSON.
JsonValue(v, ind) ==
  CASE v.t \in {"null", "undefined"} -> Lit("null")
    [] v.t = "boolean" -> Lit(IF v.b THEN "true" ELSE "false")
    [] v.t = "number" -> Lit(ToString(v.n))
    [] v.t \in {"string", "date"} -> Quoted(v)
    [] v.t = "array" ->
         IF v.kids = <<>> THEN Lit("[]")
         ELSE Lit("[") \o Lit("\n")
              \o Join([ i \in 1..Len(v.kids) |->
                          Fill(ind + 2) \o JsonValue(v.kids[i], ind + 2) ],
                      Lit(",") \o Lit("\n"))
              \o Lit("\n") \o Fill(ind) \o Lit("]")
    [] v.t = "object" ->
         LET es == SelectSeq(v.kids, LAMBDA e : e.v.t # "undefined") IN
         IF es = <<>> THEN Lit("{}")
         ELSE Lit("{") \o Lit("\n")
              \o Join([ i \in 1..Len(es) |->
                          Fill(ind + 2) \o Lit("\"") \o Lit(es[i].k) \o Lit("\"")
                            \o Lit(": ") \o JsonValue(es[i].v, ind + 2) ],
                      Lit(",") \o Lit("\n"))
              \o Lit("\n") \o Fill(ind) \o Lit("}")

formatToJson(data) == Return(JsonValue(data, 0))

\* ------------------------------------------------------------------------
\* formatters/toml.ts: convertToTomlCompatible, formatToToml, and the
\* layout of TOML.stringify
\* ------------------------------------------------------------------------

RECURSIVE convertToTomlCompatible_KeepsNull(_)
\* convertToTomlCompatible leaving null as it is.
convertToTomlCompatible_KeepsNull(data) ==
  CASE data.t = "undefined" -> JStr(<<>>)
    [] data.t = "date" -> JStr(data.s)
    [] data.t = "array" ->
         JArr([ i \in 1..Len(data.kids) |->
                  convertToTomlCompatible_KeepsNull(data.kids[i]) ])
    [] data.t = "object" ->
         LET es == SelectSeq(data.kids, LAMBDA e : e.v.t # "undefined") IN
         JObj([ i \in 1..Len(es) |->
                  Entry(es[i].k, convertToTomlCompatible_KeepsNull(es[i].v)) ])
    [] OTHER -> data

RECURSIVE convertToTomlCompatible_NoSkip(_)
\* convertToTomlCompatible converting the undefined entries of an object
\* instead of skipping them.
convertToTomlCompatible_NoSkip(data) ==
  CASE data.t \in {"null", "undefined"} -> JStr(<<>>)
    [] data.t = "date" -> JStr(data.s)
    [] data.t = "array" ->
         JArr([ i \in 1..Len(data.kids) |->
                  convertToTomlCompatible_NoSkip(data.kids[i]) ])
    [] data.t = "object" ->
         JObj([ i \in 1..Len(data.kids) |->
                  Entry(data.kids[i].k, convertToTomlCompatible_NoSkip(data.kids[i].v)) ])
    [] OTHER -> data

RECURSIVE convertToTomlCompatible(_)
\* null and undefined become '', a Date its ISO string, an array is mapped
\* element by element, an object keeps its entries that are not undefined.
convertToTomlCompatible(data) ==
  CASE data.t \in {"null", "undefined"} -> JStr(<<>>)
    [] data.t = "date" -> JStr(data.s)
    [] data.t = "array" ->
         JArr([ i \in 1..Len(data.kids) |-> convertToTomlCompatible(data.kids[i]) ])
    [] data.t = "object" ->
         LET es == SelectSeq(data.kids, LAMBDA e : e.v.t # "undefined") IN
         JObj([ i \in 1..Len(es) |->
                  Entry(es[i].k, convertToTomlCompatible(es[i].v)) ])
    [] OTHER -> data

\* The TOML type of a value.
tomlType(v) ==
  CASE v.t = "number" -> "integer"
    [] v.t = "date"   -> "datetime"
    [] v.t = "object" -> "table"
    [] OTHER          -> v.t

\* A value written on the line of its key: every scalar, an empty table, an
\* array that is empty or does not start with a table.
isInline(v) ==
  CASE v.t = "array"  -> v.kids = <<>> \/ v.kids[1].t # "object"
    [] v.t = "object" -> v.kids = <<>>
    [] OTHER          -> TRUE

\* validateArray: all elements have the type of the first.
ArrayOneType(v) == \A i \in 1..Len(v.kids) : tomlType(v.kids[i]) = tomlType(v.kids[1])

RECURSIVE TomlRejects(_)
\* The value holds, at some depth, an array TOML.stringify refuses.
TomlRejects(v) ==
  CASE v.t = "array" ->
         ~ArrayOneType(v) \/ \E i \in 1..Len(v.kids) : TomlRejects(v.kids[i])
    [] v.t = "object" -> \E i \in 1..Len(v.kids) : TomlRejects(v.kids[i].v)
    [] OTHER -> FALSE

\* An integer, with _ between groups of three digits.
stringifyInteger(n) ==
  [ i \in 1..1 |-> [ s |-> ToString(n), pad |-> (Len(ToString(n)) - 1) \div 3 ] ]

RECURSIVE stringifyInline(_)
stringifyInline(v) ==
  CASE v.t = "boolean" -> Lit(IF v.b THEN "true" ELSE "false")
    [] v.t = "number"  -> stringifyInteger(v.n)
    [] v.t = "string"  -> Quoted(v)
    [] v.t = "date"    -> TextOf(v.s)
    [] v.t = "object"  -> Lit("{ }")
    [] v.t = "array"   ->
         LET parts == [ i \in 1..Len(v.kids) |-> stringifyInline(v.kids[i]) ] IN
         IF TextLength(Join(parts, Lit(", "))) > 60
           THEN Lit("[") \o Lit("\n") \o Fill(2)
                \o Join(parts, Lit(",") \o Lit("\n") \o Fill(2))
                \o Lit("\n") \o Lit("]")
           ELSE Lit("[ ") \o Join(parts, Lit(", "))
                \o (IF parts = <<>> THEN <<>> ELSE Lit(" ")) \o Lit("]")
    [] OTHER -> <<>>

RECURSIVE stringifyObject(_, _, _)
\* The keys with inline values first, one `key = value` per line and an
\* empty line after them; then a [header] or a run of [[header]] blocks
\* for every other key.  prefix is the dotted path of the enclosing table
\* (text), indent the number of spaces before each line.
stringifyObject(prefix, indent, obj) ==
  LET inlineKeys  == SelectSeq(obj.kids, LAMBDA e : isInline(e.v))
      complexKeys == SelectSeq(obj.kids, LAMBDA e : ~isInline(e.v))
      shown == SelectSeq(inlineKeys, LAMBDA e : e.v.t \notin {"undefined", "null"})
      lines == [ i \in 1..Len(shown) |->
                   Fill(indent) \o Lit(shown[i].k) \o Lit(" = ")
                     \o stringifyInline(shown[i].v) ]
      complexIndent == IF prefix # <<>> /\ inlineKeys # <<>> THEN indent + 2 ELSE 0
      fullKey(e) == prefix \o Lit(e.k)
      table(e) ==
        (IF SelectSeq(e.v.kids, LAMBDA x : isInline(x.v)) # <<>>
           THEN Fill(complexIndent) \o Lit("[") \o fullKey(e) \o Lit("]") \o Lit("\n")
           ELSE <<>>)
        \o stringifyObject(fullKey(e) \o Lit("."), complexIndent, e.v)
      tables(e) ==
        Join([ i \in 1..Len(e.v.kids) |->
                 Fill(complexIndent) \o Lit("[[") \o fullKey(e) \o Lit("]]") \o Lit("\n")
                   \o stringifyObject(fullKey(e) \o Lit("."), complexIndent, e.v.kids[i]) ],
             Lit("\n"))
      blocks == [ i \in 1..Len(complexKeys) |->
                    IF complexKeys[i].v.t = "array"
                      THEN tables(complexKeys[i]) ELSE table(complexKeys[i]) ]
  IN  Join(lines \o (IF lines # <<>> THEN << <<>> >> ELSE <<>>) \o blocks, Lit("\n"))

\* The Error TOML.stringify throws for a value it cannot write.
TomlError(message) == Val("Error", message, 0, NoData, None, None)

\* TOML.stringify(obj)
TomlStringify(obj) ==
  IF obj.t # "object"
    THEN Throw(TomlError(<<"Can only stringify objects, not ", tomlType(obj)>>))
  ELSE IF TomlRejects(obj)
    THEN Throw(TomlError(<<"Array values can't have mixed types">>))
  ELSE Return(stringifyObject(<<>>, 0, obj))

\* typeof data !== 'object' || data === null
IsPrimitive(data) == data.t \notin {"object", "array", "date"}

\* formatToToml handing objects to TOML.stringify as they are.
formatToToml_NoConvert(data) ==
  IF IsPrimitive(data)
    THEN TomlStringify(JObj(<< Entry("value", data) >>))
    ELSE TomlStringify(data)

formatToToml(data) ==
  IF IsPrimitive(data)
    THEN TomlStringify(JObj(<< Entry("value", data) >>))
    ELSE TomlStringify(convertToTomlCompatible(data))

\* ------------------------------------------------------------------------
\* formatters/index.ts
\* ------------------------------------------------------------------------

\* format with the structured formatter as the default of its switch.
format_UnknownIsJson(data, fmt) ==
  IF fmt = "toml" THEN formatToToml(data) ELSE formatToJson(data)

\* switch (format) { case 'json': ...; case 'toml': default: ... }
format(data, fmt) ==
  IF fmt = "json" THEN formatToJson(data) ELSE formatToToml(data)

\* ------------------------------------------------------------------------
\* Bounds and the inputs drawn from outside the program
\* ------------------------------------------------------------------------

\* Longest list of items a backend page holds.
MaxItems == 3

\* Highest page number and page count of a backend page.
MaxPage == 2

\* Lengths of an item's body: small, over half the size limit, over it.
ItemSizes == {100, 13000, 26000}

PerPages == {1, 30}

\* Values of the POCKETBASE_URL environment variable: unset, '', an address.
Urls == { None, Some(""), Some("http://x:8090") }

\* HTTP statuses of a backend failure (0: no response was received).
Statuses == {0, 400, 401, 403, 404, 429, 500, 503}

\* The `message` of an error body: none, '', a text.
BodyMessages == { None, Some(<<>>), Some(<<"Something went wrong.">>) }

\* The per-field `data` of an error body: none, {}, one field, two fields.
BodyData ==
  { None, Some(<<>>),
    Some(<< [ k |-> "email", v |-> [ message |-> <<"Invalid email">> ] ] >>),
    Some(<< [ k |-> "email", v |-> [ message |-> <<"Invalid email">> ] ],
            [ k |-> "title", v |-> [ message |-> <<"Cannot be blank">> ] ] >>) }

ErrObj(t, keys, code, message) ==
  [ t |-> t, keys |-> keys, code |-> code, message |-> message,
    suggestion |-> <<>>, fieldErrors |-> None ]

\* What a thrown value can carry under `error`: nothing, null, a string,
\* objects missing code or message, an envelope of this layer, and an
\* envelope-shaped object of foreign make.
ErrProps ==
  { None,
    Some(ErrObj("null", {}, "", <<>>)),
    Some(ErrObj("string", {}, "", <<"failed">>)),
    Some(ErrObj("object", {}, "", <<>>)),
    Some(ErrObj("object", {"code"}, "TEST", <<>>)),
    Some(ErrObj("object", {"message"}, "", <<"test">>)),
    Some(ErrObj("object", {"code", "message"}, ErrorCodes.NOT_FOUND, <<"Not found">>)),
    Some(ErrObj("object", {"code", "message", "extra"}, "E_CUSTOM", <<"custom">>)) }

EnvelopeProp ==
  Some(ErrObj("object", {"code", "message"}, ErrorCodes.NOT_FOUND, <<"Not found">>))

\* ClientResponseError: a response with a failure status, or (status 0) no
\* response at all.
HttpFailures ==
  { Val("ClientResponseError", <<"Something went wrong while processing your request.">>,
        st, [ message |-> m, data |-> d ], None, e) :
      st \in Statuses, m \in BodyMessages, d \in BodyData,
      e \in { None, EnvelopeProp } }

\* The SDK's send() wraps a failure of fetch itself in a ClientResponseError
\* with status 0 and the fetch failure as originalError.
WrappedFetchFailure ==
  Val("ClientResponseError", <<"Something went wrong while processing your request.">>,
      0, NoData, Some(<<"TypeError: ", "fetch", " failed">>), None)

\* TypeErrors as fetch implementations raise them, and an unrelated one.
FetchMessages == { <<"fetch", " failed">>, <<"Failed to ", "fetch">>, <<"Load failed">> }

TypeErrors ==
  { Val("TypeError", m, 0, NoData, None, e) :
      m \in FetchMessages \cup { <<"x is not a function">> },
      e \in { None, EnvelopeProp } }

Errors == { Val("Error", <<"Something went wrong">>, 0, NoData, None, e) : e \in ErrProps }

Objects == { Val("Object", <<>>, 0, NoData, None, e) : e \in ErrProps }

Primitives ==
  { Val("String", <<"String error message">>, 0, NoData, None, None),
    Val("Null", <<>>, 0, NoData, None, None),
    Val("Undefined", <<>>, 0, NoData, None, None) }

\* The forms in which "the transport could not reach the backend" arrives.
ConnectivityFailures ==
  { WrappedFetchFailure }
    \cup { Val("TypeError", m, 0, NoData, None, None) : m \in FetchMessages }

\* Every value a backend call may reject with (the catch clause is typed
\* `unknown`).
FailureValues ==
  HttpFailures \cup { WrappedFetchFailure } \cup TypeErrors \cup Errors
    \cup Objects \cup Primitives

\* ------------------------------------------------------------------------
\* The tools
\* ------------------------------------------------------------------------

\* params.name of update_collection / delete_collection.
CollectionName == "posts"

\* The ids pb.collections.getOne(params.name) may resolve with.
CollectionIds == { "c1", "c2" }

\* tools/records.ts
RecordTools ==
  { "pocketbase_list_records", "pocketbase_get_record", "pocketbase_create_record",
    "pocketbase_update_record", "pocketbase_delete_record" }

\* tools/auth.ts: the two tools that authenticate
AuthTools == { "pocketbase_auth_admin", "pocketbase_auth_user" }

\* tools/collections.ts
CollectionTools ==
  { "pocketbase_list_collections", "pocketbase_get_collection",
    "pocketbase_create_collection", "pocketbase_update_collection",
    "pocketbase_delete_collection" }

\* tools/admin.ts: logs and backups
LogBackupTools ==
  { "pocketbase_list_logs", "pocketbase_get_log", "pocketbase_log_stats",
    "pocketbase_list_backups", "pocketbase_create_backup",
    "pocketbase_restore_backup", "pocketbase_delete_backup" }

\* The handlers that start with requireAdminAuth().
AdminOnlyTools == CollectionTools \cup LogBackupTools

\* The handlers that look the collection up by name before they change it.
LookupTools == { "pocketbase_update_collection", "pocketbase_delete_collection" }

\* The handlers without the admin guard that make one backend call.
OpenTools == (RecordTools \ {"pocketbase_list_records"}) \cup { "pocketbase_health_check" }

\* The handlers that make no backend call.
LocalTools == { "pocketbase_get_auth_status", "pocketbase_logout", "pocketbase_get_file_url" }

Tools ==
  RecordTools \cup AuthTools \cup AdminOnlyTools \cup LocalTools
    \cup { "pocketbase_health_check" }

\* ------------------------------------------------------------------------
\* State
\* ------------------------------------------------------------------------

VARIABLES
  POCKETBASE_URL,  \* process.env.POCKETBASE_URL, an optional string
  pbClient,        \* the client singleton: None, or Some([baseURL |-> url])
  authStore,       \* pbClient.authStore: "none", "admin" or "user"
  inv,             \* the tool invocation in progress
  resp,            \* what the last finished invocation gave the transport
  data,            \* the value a caller of format() passes (SpecFormat)
  formatted,       \* per argument, how format(data, arg) completed, if called
  pending,         \* per request slot, the invocation in progress there
                   \* (SpecConcurrent)
  clients,         \* the credential of every client object constructed so
                   \* far, in the order of construction (SpecClient)
  pb               \* how the last call of getClient() completed (SpecClient)

vars ==
  << POCKETBASE_URL, pbClient, authStore, inv, resp, data, formatted, pending,
     clients, pb >>

\* The second argument of a call of format(): omitted, 'toml', 'json', or
\* a string that names no format.
FormatArguments == { None } \cup { Some(f) : f \in OutputFormat \cup {"yaml"} }

\* format() has not been called.
NotFormatted == [ arg \in FormatArguments |-> None ]

\* inv.pc: "idle" before the first invocation, "await1" / "await2" while
\* the first / second backend call is outstanding, "done" once the handler
\* has returned.  calls counts the backend calls issued; startAuth and
\* startClient are the credential and the client when the invocation began.
\* existing is the id of the collection a lookup by name resolved with, and
\* target the id the outstanding update or delete was issued for; both are
\* absent outside the second call of update_collection / delete_collection.
Invocation(tool, fmt, pc, calls, startAuth, startClient) ==
  [ tool |-> tool, fmt |-> fmt, pc |-> pc, calls |-> calls,
    startAuth |-> startAuth, startClient |-> startClient,
    existing |-> None, target |-> None ]

\* Most requests the transport has handed to the server and not yet seen
\* answered.
MaxInvocations == 2

Slots == 1..MaxInvocations

\* An invocation among several: pc as above; token is the credential the
\* client attached to the request that is outstanding (pb.authStore.token
\* when the call was issued).
Concurrent(tool, pc, calls, token) ==
  [ tool |-> tool, pc |-> pc, calls |-> calls, token |-> token ]

\* No invocation in the slot: none yet, or the last one has returned.
NoInvocation == Concurrent("none", "idle", 0, "none")

NonePending == [ s \in Slots |-> NoInvocation ]

\* A response.  kind: "ok" (content only), "error" (content with
\* isError: true), "escaped" (the handler's promise rejected: nothing was
\* returned, the value in `escaped` reached the transport).  thrown is the
\* value the catch clause caught, envelope the classified envelope, text
\* the returned text.  For list_records, output is the value rendered
\* first, firstLength the length of that rendering and rendered the value
\* whose rendering was returned.
Response(kind, text, thrown, envelope, escaped, output, rendered, firstLength) ==
  [ kind |-> kind, isError |-> (kind = "error"), text |-> text,
    thrown |-> thrown, envelope |-> envelope, escaped |-> escaped,
    output |-> output, rendered |-> rendered, firstLength |-> firstLength ]

NoResponse == Response("none", <<>>, None, None, None, None, None, 0)

\* pb.authStore.isAdmin
isAdmin == authStore = "admin"

\* !url
UrlMissing == POCKETBASE_URL = None \/ POCKETBASE_URL[1] = ""

\* getClient() throws when there is no client yet and no URL.
getClientThrows == pbClient = None /\ UrlMissing

getClientError ==
  Val("Error", <<"POCKETBASE_URL environment variable is required">>,
      0, NoData, None, None)

\* The singleton after a getClient() that did not throw.
getClient ==
  IF pbClient # None THEN pbClient ELSE Some([ baseURL |-> POCKETBASE_URL[1] ])

\* The envelope requireAdminAuth() throws.
AuthRequiredResponse ==
  createErrorResponse(
    ErrorCodes.AUTH_REQUIRED,
    <<"Admin authentication required for this operation">>,
    Some(<<"Use pocketbase_auth_admin tool to authenticate as admin first">>),
    None)

\* requireAdminAuth testing for any credential instead of an admin one.
requireAdminAuth_AnyCredential ==
  IF getClientThrows THEN Some(getClientError)
  ELSE IF authStore = "none" THEN Some(AuthRequiredResponse)
  ELSE None

\* requireAdminAuth(): the value it throws, if it throws.
requireAdminAuth ==
  IF getClientThrows THEN Some(getClientError)
  ELSE IF ~isAdmin THEN Some(AuthRequiredResponse)
  ELSE None

\* ------------------------------------------------------------------------
\* What the handlers render
\* ------------------------------------------------------------------------

\* obj[k], for a key the object has
Get(obj, k) ==
  LET i == CHOOSE j \in 1..Len(obj.kids) : obj.kids[j].k = k IN obj.kids[i].v

Has(obj, k) == \E j \in 1..Len(obj.kids) : obj.kids[j].k = k

\* { ...obj, k: v }: the key keeps its place when the object has it already
Spread(obj, k, v) ==
  IF Has(obj, k)
    THEN JObj([ j \in 1..Len(obj.kids) |->
                  IF obj.kids[j].k = k THEN Entry(k, v) ELSE obj.kids[j] ])
    ELSE JObj(Append(obj.kids, Entry(k, v)))

\* The value of an `error` property as format() sees it.
ErrorPropValue(e) ==
  CASE e.t = "null"   -> JNull
    [] e.t = "string" -> JStr(e.message)
    [] OTHER ->
         JObj((IF "code" \in e.keys THEN << Entry("code", JStr(<<e.code>>)) >> ELSE <<>>)
           \o (IF "message" \in e.keys THEN << Entry("message", JStr(e.message)) >> ELSE <<>>)
           \o (IF "suggestion" \in e.keys
                 THEN << Entry("suggestion", JStr(e.suggestion)) >> ELSE <<>>)
           \o (IF "fieldErrors" \in e.keys
                 THEN << Entry("fieldErrors",
                           JObj([ i \in 1..Len(e.fieldErrors[1]) |->
                                    Entry(e.fieldErrors[1][i].k,
                                          JStr(e.fieldErrors[1][i].v)) ])) >>
                 ELSE <<>>)
           \o (IF "extra" \in e.keys THEN << Entry("extra", JStr(<<"x">>)) >> ELSE <<>>))

\* An envelope (a value with an `error` property) as format() sees it.
EnvelopeValue(v) == JObj(<< Entry("error", ErrorPropValue(v.error[1])) >>)

\* The catch clause of every handler:
\*   const errorResponse = handlePocketBaseError(error);
\*   return { content: [{ type: 'text', text: format(errorResponse, fmt) }],
\*            isError: true };
\* A value thrown by either call leaves the handler.
Caught(error, fmt) ==
  LET h == handlePocketBaseError(error, POCKETBASE_URL) IN
  IF h.threw
    THEN Response("escaped", <<>>, Some(error), None, Some(h.v), None, None, 0)
    ELSE LET t == format(EnvelopeValue(h.v), fmt) IN
         IF t.threw
           THEN Response("escaped", <<>>, Some(error), Some(h.v), Some(t.v), None, None, 0)
           ELSE Response("error", t.v, Some(error), Some(h.v), None, None, None, 0)

\* A handler's success return: { content: [{ type: 'text', text }] }, or
\* the catch clause when format() threw.
Rendered(output, fmt) ==
  LET t == format(output, fmt) IN
  IF t.threw THEN Caught(t.v, fmt)
  ELSE Response("ok", t.v, None, None, None, None, None, 0)

\* getAuthState()
getAuthState ==
  JObj(<< Entry("isAuthenticated", JBool(authStore # "none")),
          Entry("authType",
                IF isAdmin THEN JStr(<<"admin">>)
                ELSE IF authStore # "none" THEN JStr(<<"user">>) ELSE JNull),
          Entry("model",
                IF authStore # "none"
                  THEN JObj(<< Entry("id", JStr(<<"u1">>)),
                               Entry("email", JStr(<<"a@example.com">>)) >>)
                  ELSE JNull),
          Entry("tokenValid", JBool(authStore # "none")),
          Entry("tokenExpiry", JNull) >>)

LogoutOutput ==
  JObj(<< Entry("success", JBool(TRUE)),
          Entry("message", JStr(<<"Successfully logged out">>)) >>)

\* `${pb.baseURL}/api/files/${collection}/${recordId}/${filename}`
FileUrlOutput(client) ==
  JObj(<< Entry("url", JStr(<<client.baseURL, "/api/files/", "posts", "/", "r1", "/", "a.png">>)),
          Entry("collection", JStr(<<"posts">>)),
          Entry("recordId", JStr(<<"r1">>)),
          Entry("filename", JStr(<<"a.png">>)) >>)

\* The success output of the handlers that report one backend answer: the
\* fields they pick from it (one record stands for every answer).
AnswerOutput(tool) ==
  CASE tool = "pocketbase_auth_admin" ->
         JObj(<< Entry("success", JBool(TRUE)), Entry("authType", JStr(<<"admin">>)),
                 Entry("admin", JObj(<< Entry("id", JStr(<<"u1">>)),
                                        Entry("email", JStr(<<"a@example.com">>)) >>)),
                 Entry("tokenExpiry", JNull) >>)
    [] tool = "pocketbase_auth_user" ->
         JObj(<< Entry("success", JBool(TRUE)), Entry("authType", JStr(<<"user">>)),
                 Entry("collection", JStr(<<"users">>)),
                 Entry("user", JObj(<< Entry("id", JStr(<<"u1">>)),
                                       Entry("email", JStr(<<"a@example.com">>)) >>)),
                 Entry("tokenExpiry", JNull) >>)
    [] tool = "pocketbase_delete_record" ->
         JObj(<< Entry("success", JBool(TRUE)), Entry("deletedId", JStr(<<"r1">>)),
                 Entry("message", JStr(<<"Record deleted successfully">>)) >>)
    [] tool = "pocketbase_delete_collection" ->
         JObj(<< Entry("success", JBool(TRUE)),
                 Entry("deletedCollection", JStr(<<"posts">>)),
                 Entry("message",
                       JStr(<<"Collection and all records deleted successfully">>)) >>)
    [] tool = "pocketbase_create_backup" ->
         JObj(<< Entry("success", JBool(TRUE)), Entry("name", JStr(<<"b.zip">>)),
                 Entry("message",
                       JStr(<<"Backup \"", "b.zip", "\" created successfully">>)) >>)
    [] tool = "pocketbase_restore_backup" ->
         JObj(<< Entry("success", JBool(TRUE)), Entry("name", JStr(<<"b.zip">>)),
                 Entry("message",
                       JStr(<<"Backup \"", "b.zip",
                              "\" restored successfully. Server may restart.">>)) >>)
    [] tool = "pocketbase_delete_backup" ->
         JObj(<< Entry("success", JBool(TRUE)), Entry("name", JStr(<<"b.zip">>)),
                 Entry("message",
                       JStr(<<"Backup \"", "b.zip", "\" deleted successfully">>)) >>)
    [] OTHER ->
         JObj(<< Entry("id", JStr(<<"r1">>)), Entry("name", JStr(<<"posts">>)) >>)

\* ------------------------------------------------------------------------
\* tools/records.ts: the output of pocketbase_list_records
\* ------------------------------------------------------------------------

\* The i-th record of a page, with a body of `size` characters.
Item(i, size) ==
  JObj(<< Entry("id", JStr(<<"r" \o ToString(i)>>)),
          Entry("body", JLongStr(<<>>, size)) >>)

\* What pb.collection(c).getList() resolves with.
ListResults ==
  { [ page |-> p, perPage |-> pp, totalItems |-> Len(sz), totalPages |-> tp,
      items |-> [ i \in 1..Len(sz) |-> Item(i, sz[i]) ] ] :
      p \in 1..MaxPage, pp \in PerPages, tp \in 0..MaxPage,
      sz \in UNION { [ 1..k -> ItemSizes ] : k \in 0..MaxItems } }

\* ListOutput carrying nextOffset on the last page too.
ListOutput_AlwaysOffset(result) ==
  JObj(<< Entry("page", JNum(result.page)),
          Entry("perPage", JNum(result.perPage)),
          Entry("totalItems", JNum(result.totalItems)),
          Entry("totalPages", JNum(result.totalPages)),
          Entry("hasMore", JBool(result.page < result.totalPages)),
          Entry("nextOffset", JNum(result.page * result.perPage)),
          Entry("items", JArr(result.items)) >>)

\* const output: RecordListResult = { page, ..., hasMore,
\*   ...(page < totalPages && { nextOffset: page * perPage }), items }
ListOutput(result) ==
  JObj(<< Entry("page", JNum(result.page)),
          Entry("perPage", JNum(result.perPage)),
          Entry("totalItems", JNum(result.totalItems)),
          Entry("totalPages", JNum(result.totalPages)),
          Entry("hasMore", JBool(result.page < result.totalPages)) >>
       \o (IF result.page < result.totalPages
             THEN << Entry("nextOffset", JNum(result.page * result.perPage)) >>
             ELSE <<>>)
       \o << Entry("items", JArr(result.items)) >>)

\* truncatedItems with Math.floor in place of Math.ceil.
truncatedItems_Floor(items) == SubSeq(items, 1, Len(items) \div 2)

\* output.items.slice(0, Math.ceil(output.items.length / 2))
truncatedItems(items) == SubSeq(items, 1, (Len(items) + 1) \div 2)

\* truncatedOutput built field by field, without nextOffset.
truncatedOutput_NoOffset(output) ==
  LET items == Get(output, "items").kids
      kept  == truncatedItems(items)
  IN  JObj(<< Entry("page", Get(output, "page")),
              Entry("perPage", Get(output, "perPage")),
              Entry("totalItems", Get(output, "totalItems")),
              Entry("totalPages", Get(output, "totalPages")),
              Entry("hasMore", Get(output, "hasMore")),
              Entry("items", JArr(kept)),
              Entry("_truncated", JBool(TRUE)),
              Entry("_message",
                    JStr(<< "Response truncated from ", ToString(Len(items)), " to ",
                            ToString(Len(kept)),
                            " items. Use pagination or filters to see more." >>)) >>)

\* { ...output, items: truncatedItems, _truncated: true, _message: `...` }
truncatedOutput(output) ==
  LET items == Get(output, "items").kids
      kept  == truncatedItems(items)
  IN  Spread(Spread(Spread(output, "items", JArr(kept)),
                    "_truncated", JBool(TRUE)),
             "_message",
             JStr(<< "Response truncated from ", ToString(Len(items)), " to ",
                     ToString(Len(kept)),
                     " items. Use pagination or filters to see more." >>))

\* if (text.length > MAX_RESPONSE_SIZE)
TooLarge(text) == TextLength(text) > MAX_RESPONSE_SIZE

\* From `const output` to the return of the try block.
ListRecordsResponse(result, fmt) ==
  LET output == ListOutput(result)
      first  == format(output, fmt)
  IN  IF first.threw THEN Caught(first.v, fmt)
      ELSE IF TooLarge(first.v)
        THEN LET second == format(truncatedOutput(output), fmt) IN
             IF second.threw THEN Caught(second.v, fmt)
             ELSE Response("ok", second.v, None, None, None, Some(output),
                           Some(truncatedOutput(output)), TextLength(first.v))
      ELSE Response("ok", first.v, None, None, None, Some(output), Some(output),
                    TextLength(first.v))

\* ------------------------------------------------------------------------
\* tools/collections.ts, tools/admin.ts: the outputs of
\* pocketbase_list_collections and pocketbase_list_logs
\* ------------------------------------------------------------------------

\* The handlers that return a page of items.
PagedListTools ==
  { "pocketbase_list_records", "pocketbase_list_collections", "pocketbase_list_logs" }

\* What the handler picks from the i-th collection of a page:
\* { id, name, type, system, fieldCount }, `size` characters of text in all.
CollectionItem(i, size) ==
  JObj(<< Entry("id", JStr(<<"c" \o ToString(i)>>)),
          Entry("name", JLongStr(<<>>, size)),
          Entry("type", JStr(<<"base">>)),
          Entry("system", JBool(FALSE)),
          Entry("fieldCount", JNum(3)) >>)

\* What the handler picks from the i-th log of a page:
\* { id, level, message, data, created }.
LogItem(i, size) ==
  JObj(<< Entry("id", JStr(<<"l" \o ToString(i)>>)),
          Entry("level", JNum(0)),
          Entry("message", JLongStr(<<>>, size)),
          Entry("data", JObj(<< Entry("status", JNum(200)) >>)),
          Entry("created", JStr(<<"2026-01-15 10:30:00.000Z">>)) >>)

\* What pb.collections.getList() and pb.logs.getList() resolve with: the
\* page number, and the sizes of the items.  The handlers copy the four
\* numbers and never compare them.
AdminListResults ==
  { [ page |-> p, perPage |-> 30, totalItems |-> Len(sz), totalPages |-> MaxPage,
      sizes |-> sz ] :
      p \in 1..MaxPage,
      sz \in UNION { [ 1..k -> ItemSizes ] : k \in 0..MaxItems } }

\* const output = { page, perPage, totalItems, totalPages,
\*                  items: result.items.map(x => ({ ... })) }
PageOutput(result, items) ==
  JObj(<< Entry("page", JNum(result.page)),
          Entry("perPage", JNum(result.perPage)),
          Entry("totalItems", JNum(result.totalItems)),
          Entry("totalPages", JNum(result.totalPages)),
          Entry("items", JArr(items)) >>)

\* const text = format(output, fmt); return { content: [{ type: 'text', text }] }
PageResponse(output, fmt) ==
  LET text == format(output, fmt) IN
  IF text.threw THEN Caught(text.v, fmt)
  ELSE Response("ok", text.v, None, None, None, Some(output), Some(output),
                TextLength(text.v))

\* ------------------------------------------------------------------------
\* The handlers.  The transport hands the server one invocation at a time
\* here; a handler runs from its start to its first await in one step, and
\* from the completion of a backend call to its next await or its return
\* in one step.
\* ------------------------------------------------------------------------

Init ==
  /\ POCKETBASE_URL \in Urls
  /\ pbClient = None
  /\ authStore = "none"
  /\ inv = Invocation("none", DEFAULT_FORMAT, "idle", 0, "none", None)
  /\ resp = NoResponse
  /\ data = JUndefined
  /\ formatted = NotFormatted
  /\ pending = NonePending
  /\ clients = << >>
  /\ pb = None

Ready == inv.pc \in {"idle", "done"}

\* The handler has returned (or its promise has rejected) with r.
Finish(tool, fmt, calls, startAuth, startClient, r) ==
  /\ inv' = Invocation(tool, fmt, "done", calls, startAuth, startClient)
  /\ resp' = r
  /\ UNCHANGED << data, formatted, pending, clients, pb >>

\* The handler has issued its calls-th backend call and awaits it.
Await(tool, fmt, calls, startAuth, startClient) ==
  /\ inv' = Invocation(tool, fmt, IF calls = 1 THEN "await1" ELSE "await2",
                       calls, startAuth, startClient)
  /\ resp' = NoResponse
  /\ UNCHANGED << data, formatted, pending, clients, pb >>

\* InvokeBackendTool answering health_check without asking the backend.
InvokeBackendTool_LocalHealth(tool, fmt) ==
  /\ Ready
  /\ tool \in RecordTools \cup AuthTools \cup { "pocketbase_health_check" }
  /\ IF getClientThrows
       THEN /\ Finish(tool, fmt, 0, authStore, pbClient, Caught(getClientError, fmt))
            /\ UNCHANGED pbClient
       ELSE /\ IF tool = "pocketbase_health_check"
                 THEN Finish(tool, fmt, 0, authStore, pbClient,
                             Rendered(AnswerOutput(tool), fmt))
                 ELSE Await(tool, fmt, 1, authStore, pbClient)
            /\ pbClient' = getClient
  /\ UNCHANGED << POCKETBASE_URL, authStore >>

\* records.ts, auth.ts (auth_admin, auth_user), admin.ts (health_check):
\*   try { const pb = getClient(); const x = await pb....(...)
InvokeBackendTool(tool, fmt) ==
  /\ Ready
  /\ tool \in RecordTools \cup AuthTools \cup { "pocketbase_health_check" }
  /\ IF getClientThrows
       THEN /\ Finish(tool, fmt, 0, authStore, pbClient, Caught(getClientError, fmt))
            /\ UNCHANGED pbClient
       ELSE /\ Await(tool, fmt, 1, authStore, pbClient)
            /\ pbClient' = getClient
  /\ UNCHANGED << POCKETBASE_URL, authStore >>

\* collections.ts, admin.ts (logs, backups):
\*   try { requireAdminAuth(); const pb = getClient(); const x = await pb....
InvokeAdminTool(tool, fmt) ==
  /\ Ready
  /\ tool \in AdminOnlyTools
  /\ IF requireAdminAuth # None
       THEN Finish(tool, fmt, 0, authStore, pbClient, Caught(requireAdminAuth[1], fmt))
       ELSE Await(tool, fmt, 1, authStore, pbClient)
  /\ pbClient' = IF getClientThrows THEN pbClient ELSE getClient
  /\ UNCHANGED << POCKETBASE_URL, authStore >>

\* auth.ts, pocketbase_get_auth_status
GetAuthStatus(fmt) ==
  /\ Ready
  /\ IF getClientThrows
       THEN /\ Finish("pocketbase_get_auth_status", fmt, 0, authStore, pbClient,
                      Caught(getClientError, fmt))
            /\ UNCHANGED pbClient
       ELSE /\ Finish("pocketbase_get_auth_status", fmt, 0, authStore, pbClient,
                      Rendered(getAuthState, fmt))
            /\ pbClient' = getClient
  /\ UNCHANGED << POCKETBASE_URL, authStore >>

\* Logout answering without clearing the credential.
Logout_KeepsCredential(fmt) ==
  /\ Ready
  /\ IF getClientThrows
       THEN /\ Finish("pocketbase_logout", fmt, 0, authStore, pbClient,
                      Caught(getClientError, fmt))
            /\ UNCHANGED pbClient
       ELSE /\ Finish("pocketbase_logout", fmt, 0, authStore, pbClient,
                      Rendered(LogoutOutput, fmt))
            /\ pbClient' = getClient
  /\ UNCHANGED << POCKETBASE_URL, authStore >>

\* auth.ts, pocketbase_logout: pb.authStore.clear()
Logout(fmt) ==
  /\ Ready
  /\ IF getClientThrows
       THEN /\ Finish("pocketbase_logout", fmt, 0, authStore, pbClient,
                      Caught(getClientError, fmt))
            /\ UNCHANGED << pbClient, authStore >>
       ELSE /\ Finish("pocketbase_logout", fmt, 0, authStore, pbClient,
                      Rendered(LogoutOutput, fmt))
            /\ pbClient' = getClient
            /\ authStore' = "none"
  /\ UNCHANGED POCKETBASE_URL

\* files.ts, pocketbase_get_file_url
GetFileUrl(fmt) ==
  /\ Ready
  /\ IF getClientThrows
       THEN /\ Finish("pocketbase_get_file_url", fmt, 0, authStore, pbClient,
                      Caught(getClientError, fmt))
            /\ UNCHANGED pbClient
       ELSE /\ Finish("pocketbase_get_file_url", fmt, 0, authStore, pbClient,
                      Rendered(FileUrlOutput(getClient[1]), fmt))
            /\ pbClient' = getClient
  /\ UNCHANGED << POCKETBASE_URL, authStore >>

\* The awaited call of a one-call handler, or the second call of
\* update_collection / delete_collection, resolves: the handler renders
\* its output and returns.
BackendResolve ==
  /\ \/ /\ inv.pc = "await1"
        /\ inv.tool \in OpenTools \cup (AdminOnlyTools \ (LookupTools \cup PagedListTools))
     \/ inv.pc = "await2" /\ inv.tool \in LookupTools
  /\ Finish(inv.tool, inv.fmt, inv.calls, inv.startAuth, inv.startClient,
            Rendered(AnswerOutput(inv.tool), inv.fmt))
  /\ UNCHANGED << POCKETBASE_URL, pbClient, authStore >>

\* LookupResolve issuing the update or delete for params.name, not for the
\* id the lookup returned.
LookupResolve_TargetsName ==
  /\ inv.pc = "await1"
  /\ inv.tool \in LookupTools
  /\ \E id \in CollectionIds :
       inv' = [ Invocation(inv.tool, inv.fmt, "await2", inv.calls + 1,
                           inv.startAuth, inv.startClient)
                  EXCEPT !.existing = Some(id), !.target = Some(CollectionName) ]
  /\ resp' = NoResponse
  /\ UNCHANGED << POCKETBASE_URL, pbClient, authStore, data, formatted, pending, clients, pb >>

\* collections.ts: const existing = await pb.collections.getOne(params.name)
\* resolves, and the handler issues update(existing.id, ...) or
\* delete(existing.id).
LookupResolve ==
  /\ inv.pc = "await1"
  /\ inv.tool \in LookupTools
  /\ \E id \in CollectionIds :
       inv' = [ Invocation(inv.tool, inv.fmt, "await2", inv.calls + 1,
                           inv.startAuth, inv.startClient)
                  EXCEPT !.existing = Some(id), !.target = Some(id) ]
  /\ resp' = NoResponse
  /\ UNCHANGED << POCKETBASE_URL, pbClient, authStore, data, formatted, pending, clients, pb >>

\* AuthResolve keeping an admin credential when auth_user succeeds.
AuthResolve_KeepsAdmin ==
  /\ inv.pc = "await1"
  /\ inv.tool \in AuthTools
  /\ authStore' = IF inv.tool = "pocketbase_auth_admin" \/ authStore = "admin"
                    THEN "admin" ELSE "user"
  /\ Finish(inv.tool, inv.fmt, inv.calls, inv.startAuth, inv.startClient,
            Rendered(AnswerOutput(inv.tool), inv.fmt))
  /\ UNCHANGED << POCKETBASE_URL, pbClient >>

\* auth.ts: authWithPassword resolves; the SDK has stored the token and the
\* record in pb.authStore.
AuthResolve ==
  /\ inv.pc = "await1"
  /\ inv.tool \in AuthTools
  /\ authStore' = IF inv.tool = "pocketbase_auth_admin" THEN "admin" ELSE "user"
  /\ Finish(inv.tool, inv.fmt, inv.calls, inv.startAuth, inv.startClient,
            Rendered(AnswerOutput(inv.tool), inv.fmt))
  /\ UNCHANGED << POCKETBASE_URL, pbClient >>

\* records.ts: getList resolves with a page.
ListRecordsResolve ==
  /\ inv.pc = "await1"
  /\ inv.tool = "pocketbase_list_records"
  /\ \E result \in ListResults :
       Finish(inv.tool, inv.fmt, inv.calls, inv.startAuth, inv.startClient,
              ListRecordsResponse(result, inv.fmt))
  /\ UNCHANGED << POCKETBASE_URL, pbClient, authStore >>

\* collections.ts: pb.collections.getList resolves with a page.
ListCollectionsResolve ==
  /\ inv.pc = "await1"
  /\ inv.tool = "pocketbase_list_collections"
  /\ \E result \in AdminListResults :
       Finish(inv.tool, inv.fmt, inv.calls, inv.startAuth, inv.startClient,
              PageResponse(
                PageOutput(result, [ i \in 1..Len(result.sizes) |->
                                       CollectionItem(i, result.sizes[i]) ]),
                inv.fmt))
  /\ UNCHANGED << POCKETBASE_URL, pbClient, authStore >>

\* admin.ts: pb.logs.getList resolves with a page.
ListLogsResolve ==
  /\ inv.pc = "await1"
  /\ inv.tool = "pocketbase_list_logs"
  /\ \E result \in AdminListResults :
       Finish(inv.tool, inv.fmt, inv.calls, inv.startAuth, inv.startClient,
              PageResponse(
                PageOutput(result, [ i \in 1..Len(result.sizes) |->
                                       LogItem(i, result.sizes[i]) ]),
                inv.fmt))
  /\ UNCHANGED << POCKETBASE_URL, pbClient, authStore >>

\* BackendReject clearing the credential when an authenticate call fails.
BackendReject_ClearsStore(error) ==
  /\ inv.pc \in {"await1", "await2"}
  /\ Finish(inv.tool, inv.fmt, inv.calls, inv.startAuth, inv.startClient,
            Caught(error, inv.fmt))
  /\ authStore' = IF inv.tool \in AuthTools THEN "none" ELSE authStore
  /\ UNCHANGED << POCKETBASE_URL, pbClient >>

\* BackendReject issuing the call once more after a 429.
BackendReject_Retries(error) ==
  /\ inv.pc \in {"await1", "await2"}
  /\ IF error.status = 429 /\ inv.calls < 3
       THEN Await(inv.tool, inv.fmt, inv.calls + 1, inv.startAuth, inv.startClient)
       ELSE Finish(inv.tool, inv.fmt, inv.calls, inv.startAuth, inv.startClient,
                   Caught(error, inv.fmt))
  /\ UNCHANGED << POCKETBASE_URL, pbClient, authStore >>

\* The awaited call rejects with `error`: the catch clause runs.
BackendReject(error) ==
  /\ inv.pc \in {"await1", "await2"}
  /\ Finish(inv.tool, inv.fmt, inv.calls, inv.startAuth, inv.startClient,
            Caught(error, inv.fmt))
  /\ UNCHANGED << POCKETBASE_URL, pbClient, authStore >>

Next ==
  \/ \E tool \in Tools, fmt \in OutputFormat : InvokeBackendTool(tool, fmt)
  \/ \E tool \in Tools, fmt \in OutputFormat : InvokeAdminTool(tool, fmt)
  \/ \E fmt \in OutputFormat : GetAuthStatus(fmt)
  \/ \E fmt \in OutputFormat : Logout(fmt)
  \/ \E fmt \in OutputFormat : GetFileUrl(fmt)
  \/ BackendResolve
  \/ LookupResolve
  \/ AuthResolve
  \/ ListRecordsResolve
  \/ ListCollectionsResolve
  \/ ListLogsResolve
  \/ \E error \in FailureValues : BackendReject(error)

Spec == Init /\ [][Next]_vars

\* ------------------------------------------------------------------------
\* format() as a function of its arguments: a caller passes a value and a
\* format, and format() returns a text or throws.
\* ------------------------------------------------------------------------

\* Longest array among the values passed to format().
MaxLen == 2

\* new Date('2026-01-15T10:30:00.000Z')
Timestamp == JDate("2026-01-15T10:30:00.000Z")

Scalars == { JBool(TRUE), JNum(5), JNum(1234), JStr(<<"just a string">>) }

Leaves == Scalars \cup { JNull, Timestamp }

\* The sequences over S of lo to hi elements.
SeqsOver(S, lo, hi) == UNION { [ 1..k -> S ] : k \in lo..hi }

\* Arrays of scalars, timestamps and nulls, of one type and mixed.
Arrays == { JArr(xs) : xs \in SeqsOver({ JNull, JNum(5), Timestamp }, 0, MaxLen) }

\* Mappings held by a mapping: empty, one entry (absent, null, a scalar, a
\* timestamp), and a timestamp one level further down.
InnerMappings ==
  { JObj(<<>>), JObj(<< Entry("c", JObj(<< Entry("d", Timestamp) >>)) >>) }
    \cup { JObj(<< Entry("c", v) >>) : v \in Leaves \cup { JUndefined } }

\* Arrays of mappings.
TableArrays ==
  { JArr(xs) :
      xs \in SeqsOver({ JObj(<< Entry("c", Timestamp) >>), JObj(<< Entry("c", JNull) >>) },
                      1, MaxLen) }

\* Mappings with the keys a and b, each absent (no key), undefined or set.
Mappings ==
  { JObj(a \o b) :
      a \in { <<>> } \cup { << Entry("a", v) >> :
                v \in Leaves \cup { JUndefined } \cup Arrays \cup InnerMappings
                        \cup TableArrays },
      b \in { <<>> } \cup { << Entry("b", v) >> :
                v \in { JUndefined, JNull, JNum(5), Timestamp } } }

\* The values passed to format().
Values == Leaves \cup Arrays \cup TableArrays \cup Mappings

InitFormat ==
  /\ POCKETBASE_URL = None
  /\ pbClient = None
  /\ authStore = "none"
  /\ inv = Invocation("none", DEFAULT_FORMAT, "idle", 0, "none", None)
  /\ resp = NoResponse
  /\ data \in Values
  /\ formatted = NotFormatted
  /\ pending = NonePending
  /\ clients = << >>
  /\ pb = None

\* format(data) or format(data, f): the parameter `format = DEFAULT_FORMAT`
\* takes the default when the argument is omitted.
formatCall(d, arg) == format(d, IF arg = None THEN DEFAULT_FORMAT ELSE arg[1])

\* A call format(data) or format(data, f) completes.
CallFormat(arg) ==
  /\ formatted[arg] = None
  /\ formatted' = [ formatted EXCEPT ![arg] = Some(formatCall(data, arg)) ]
  /\ UNCHANGED << POCKETBASE_URL, pbClient, authStore, inv, resp, data, pending, clients, pb >>

NextFormat == \E arg \in FormatArguments : CallFormat(arg)

SpecFormat == InitFormat /\ [][NextFormat]_vars

\* ------------------------------------------------------------------------
\* Several invocations at once.  The server starts a handler for every
\* request it reads and does not wait for the one before; the handlers
\* share the client singleton, and they interleave where they await a
\* backend call.  A handler runs from its start to its first await in one
\* step, and from the completion of a call to its next await or its
\* return in one step.  Every invocation takes the default format.
\* ------------------------------------------------------------------------

\* The tools invoked at once: the two that look a collection up before
\* they change it, one admin-only tool with one call, one tool without the
\* guard, and the three that change the credential.
ConcurrentTools ==
  LookupTools \cup AuthTools
    \cup { "pocketbase_get_collection", "pocketbase_get_record", "pocketbase_logout" }

\* What a backend call rejects with here: a 403, and a failure of fetch.
ConcurrentFailures ==
  { Val("ClientResponseError", <<"Something went wrong while processing your request.">>,
        403, NoData, None, None),
    Val("TypeError", <<"fetch", " failed">>, 0, NoData, None, None) }

InitConcurrent ==
  /\ POCKETBASE_URL \in Urls
  /\ pbClient = None
  /\ authStore = "none"
  /\ inv = Invocation("none", DEFAULT_FORMAT, "idle", 0, "none", None)
  /\ resp = NoResponse
  /\ data = JUndefined
  /\ formatted = NotFormatted
  /\ pending = NonePending
  /\ clients = << >>
  /\ pb = None

\* The slot can take a request.
Free(s) == pending[s].pc \in {"idle", "done"}

\* The handler in slot s issues its calls-th backend call: the client sends
\* it with the credential the store holds now, and the handler awaits it.
Issue(s, tool, calls) ==
  /\ pending' = [ pending EXCEPT ![s] =
                    Concurrent(tool, IF calls = 1 THEN "await1" ELSE "await2",
                               calls, authStore) ]
  /\ UNCHANGED resp

\* The handler in slot s returns r.
Answer(s, tool, calls, r) ==
  /\ pending' = [ pending EXCEPT ![s] = Concurrent(tool, "done", calls, "none") ]
  /\ resp' = r

\* records.ts, auth.ts:  try { const pb = getClient(); await pb....(...)
StartBackendTool(s, tool) ==
  /\ Free(s)
  /\ tool \in ConcurrentTools \cap (RecordTools \cup AuthTools)
  /\ IF getClientThrows
       THEN /\ Answer(s, tool, 0, Caught(getClientError, DEFAULT_FORMAT))
            /\ UNCHANGED pbClient
       ELSE /\ Issue(s, tool, 1)
            /\ pbClient' = getClient
  /\ UNCHANGED << POCKETBASE_URL, authStore, inv, data, formatted, clients, pb >>

\* collections.ts:  try { requireAdminAuth(); const pb = getClient();
\*                        await pb.collections....(...)
StartAdminTool(s, tool) ==
  /\ Free(s)
  /\ tool \in ConcurrentTools \cap AdminOnlyTools
  /\ IF requireAdminAuth # None
       THEN Answer(s, tool, 0, Caught(requireAdminAuth[1], DEFAULT_FORMAT))
       ELSE Issue(s, tool, 1)
  /\ pbClient' = IF getClientThrows THEN pbClient ELSE getClient
  /\ UNCHANGED << POCKETBASE_URL, authStore, inv, data, formatted, clients, pb >>

\* auth.ts, pocketbase_logout: pb.authStore.clear()
StartLogout(s) ==
  /\ Free(s)
  /\ IF getClientThrows
       THEN /\ Answer(s, "pocketbase_logout", 0, Caught(getClientError, DEFAULT_FORMAT))
            /\ UNCHANGED << pbClient, authStore >>
       ELSE /\ Answer(s, "pocketbase_logout", 0, Rendered(LogoutOutput, DEFAULT_FORMAT))
            /\ pbClient' = getClient
            /\ authStore' = "none"
  /\ UNCHANGED << POCKETBASE_URL, inv, data, formatted, clients, pb >>

\* The awaited call of a one-call handler, or the update / delete of a
\* handler that looked the collection up, resolves: the handler returns.
ResolveCall(s) ==
  /\ \/ pending[s].pc = "await1" /\ pending[s].tool \notin LookupTools \cup AuthTools
     \/ pending[s].pc = "await2" /\ pending[s].tool \in LookupTools
  /\ Answer(s, pending[s].tool, pending[s].calls,
            Rendered(AnswerOutput(pending[s].tool), DEFAULT_FORMAT))
  /\ UNCHANGED << POCKETBASE_URL, pbClient, authStore, inv, data, formatted, clients, pb >>

\* collections.ts: await pb.collections.getOne(params.name) resolves, and
\* the handler goes on to pb.collections.update(existing.id, ...) or
\* pb.collections.delete(existing.id); requireAdminAuth() is not called
\* again.
ResolveLookup(s) ==
  /\ pending[s].pc = "await1"
  /\ pending[s].tool \in LookupTools
  /\ Issue(s, pending[s].tool, pending[s].calls + 1)
  /\ UNCHANGED << POCKETBASE_URL, pbClient, authStore, inv, data, formatted, clients, pb >>

\* auth.ts: authWithPassword resolves; the SDK has stored the token and the
\* record in pb.authStore.
ResolveAuth(s) ==
  /\ pending[s].pc = "await1"
  /\ pending[s].tool \in AuthTools
  /\ authStore' = IF pending[s].tool = "pocketbase_auth_admin" THEN "admin" ELSE "user"
  /\ Answer(s, pending[s].tool, pending[s].calls,
            Rendered(AnswerOutput(pending[s].tool), DEFAULT_FORMAT))
  /\ UNCHANGED << POCKETBASE_URL, pbClient, inv, data, formatted, clients, pb >>

\* The awaited call rejects with `error`: the catch clause runs.
RejectCall(s, error) ==
  /\ pending[s].pc \in {"await1", "await2"}
  /\ Answer(s, pending[s].tool, pending[s].calls, Caught(error, DEFAULT_FORMAT))
  /\ UNCHANGED << POCKETBASE_URL, pbClient, authStore, inv, data, formatted, clients, pb >>

NextConcurrent ==
  \/ \E s \in Slots, tool \in ConcurrentTools : StartBackendTool(s, tool)
  \/ \E s \in Slots, tool \in ConcurrentTools : StartAdminTool(s, tool)
  \/ \E s \in Slots : StartLogout(s)
  \/ \E s \in Slots : ResolveCall(s)
  \/ \E s \in Slots : ResolveLookup(s)
  \/ \E s \in Slots : ResolveAuth(s)
  \/ \E s \in Slots, error \in ConcurrentFailures : RejectCall(s, error)

SpecConcurrent == InitConcurrent /\ [][NextConcurrent]_vars

\* ------------------------------------------------------------------------
\* services/pocketbase: getClient() and resetClient() called in any order,
\* by callers that keep the client they were given and reach its
\* authStore through it.  A client object is told from another by its
\* place in the order of construction.
\* ------------------------------------------------------------------------

\* Most client objects constructed in one run.
MaxClients == 4

\* new PocketBase(url), the id-th object constructed
NewClient(url, id) == [ baseURL |-> url, id |-> id ]

InitClient ==
  /\ POCKETBASE_URL \in Urls
  /\ pbClient = None
  /\ authStore = "none"
  /\ inv = Invocation("none", DEFAULT_FORMAT, "idle", 0, "none", None)
  /\ resp = NoResponse
  /\ data = JUndefined
  /\ formatted = NotFormatted
  /\ pending = NonePending
  /\ clients = << >>
  /\ pb = None

\* if (!pbClient) { const url = process.env.POCKETBASE_URL;
\*                  if (!url) throw new Error(...);
\*                  pbClient = new PocketBase(url); }
\* return pbClient;
CallGetClient ==
  /\ IF pbClient # None
       THEN /\ pb' = Some(Return(pbClient[1]))
            /\ UNCHANGED << pbClient, clients >>
       ELSE IF UrlMissing
         THEN /\ pb' = Some(Throw(getClientError))
              /\ UNCHANGED << pbClient, clients >>
         ELSE /\ Len(clients) < MaxClients
              /\ pbClient' = Some(NewClient(POCKETBASE_URL[1], Len(clients) + 1))
              /\ clients' = Append(clients, "none")
              /\ pb' = Some(Return(pbClient'[1]))
  /\ UNCHANGED << POCKETBASE_URL, authStore, inv, resp, data, formatted, pending >>

\* CallResetClient dropping the client without clearing its credential.
CallResetClient_KeepsCredential ==
  /\ pbClient' = None
  /\ UNCHANGED << POCKETBASE_URL, authStore, inv, resp, data, formatted, pending,
                  clients, pb >>

\* if (pbClient) { pbClient.authStore.clear(); }  pbClient = null;
CallResetClient ==
  /\ clients' = IF pbClient # None
                  THEN [ clients EXCEPT ![pbClient[1].id] = "none" ]
                  ELSE clients
  /\ pbClient' = None
  /\ UNCHANGED << POCKETBASE_URL, authStore, inv, resp, data, formatted, pending, pb >>

\* A caller that holds a client (const pb = getClient()) changes the
\* credential through it: authWithPassword stores an admin or a user
\* credential in pb.authStore, pb.authStore.clear() removes it.
AuthStoreSave(credential) ==
  /\ pb # None
  /\ ~pb[1].threw
  /\ clients' = [ clients EXCEPT ![pb[1].v.id] = credential ]
  /\ UNCHANGED << POCKETBASE_URL, pbClient, authStore, inv, resp, data, formatted,
                  pending, pb >>

NextClient ==
  \/ CallGetClient
  \/ CallResetClient
  \/ \E credential \in {"none", "admin", "user"} : AuthStoreSave(credential)

SpecClient == InitClient /\ [][NextClient]_vars

\* ------------------------------------------------------------------------
\* Reading a rendered text back: what a JSON parser and a TOML parser make
\* of the texts above.  A text is read chunk by chunk; the result of a
\* reading step is [v |-> the value read, next |-> the chunk after it].
\* ------------------------------------------------------------------------

\* Largest number written in a text that is read back.
MaxNumber == 1500

IsNumeral(s) == \E n \in 0..MaxNumber : ToString(n) = s

NumberOf(s) == CHOOSE n \in 0..MaxNumber : ToString(n) = s

RECURSIVE SkipBlank(_, _)
\* The first chunk from i on that is not indentation or a line end.
SkipBlank(text, i) ==
  IF i <= Len(text) /\ text[i].s \in {"", "\n"} THEN SkipBlank(text, i + 1) ELSE i

RECURSIVE Closing(_, _, _)
\* The first chunk from i on that is the literal close.
Closing(text, i, close) ==
  IF text[i].s = close THEN i ELSE Closing(text, i + 1, close)

\* A string whose opening quote is chunk i: its pieces, and the number of
\* characters that are not spelled out.
ReadString(text, i) ==
  LET j       == Closing(text, i + 1, "\"")
      content == SubSeq(text, i + 1, j - 1)
      lits    == SelectSeq(content, LAMBDA c : c.s # "")
  IN  [ v |-> JLongStr([ k \in 1..Len(lits) |-> lits[k].s ],
                       TextLength(SelectSeq(content, LAMBDA c : c.s = ""))),
        next |-> j + 1 ]

RECURSIVE ReadJson(_, _)
RECURSIVE ReadJsonElements(_, _, _)
RECURSIVE ReadJsonEntries(_, _, _)
\* A JSON value: null, true, false, a number, a string, an array, an object.
ReadJson(text, from) ==
  LET i == SkipBlank(text, from)
      c == text[i].s
  IN  CASE c = "null"  -> [ v |-> JNull, next |-> i + 1 ]
        [] c = "true"  -> [ v |-> JBool(TRUE), next |-> i + 1 ]
        [] c = "false" -> [ v |-> JBool(FALSE), next |-> i + 1 ]
        [] c = "\""    -> ReadString(text, i)
        [] c = "[]"    -> [ v |-> JArr(<<>>), next |-> i + 1 ]
        [] c = "{}"    -> [ v |-> JObj(<<>>), next |-> i + 1 ]
        [] c = "["     -> ReadJsonElements(text, i + 1, <<>>)
        [] c = "{"     -> ReadJsonEntries(text, i + 1, <<>>)
        [] OTHER       -> [ v |-> JNum(NumberOf(c)), next |-> i + 1 ]

ReadJsonElements(text, from, acc) ==
  LET i == SkipBlank(text, from) IN
  IF text[i].s = "]" THEN [ v |-> JArr(acc), next |-> i + 1 ]
  ELSE IF text[i].s = "," THEN ReadJsonElements(text, i + 1, acc)
  ELSE LET r == ReadJson(text, i) IN ReadJsonElements(text, r.next, Append(acc, r.v))

\* An entry is  "key": value
ReadJsonEntries(text, from, acc) ==
  LET i == SkipBlank(text, from) IN
  IF text[i].s = "}" THEN [ v |-> JObj(acc), next |-> i + 1 ]
  ELSE IF text[i].s = "," THEN ReadJsonEntries(text, i + 1, acc)
  ELSE LET r == ReadJson(text, i + 4) IN
       ReadJsonEntries(text, r.next, Append(acc, Entry(text[i + 1].s, r.v)))

\* JSON.parse(text)
ParseJson(text) == ReadJson(text, 1).v

RECURSIVE ReadTomlValue(_, _)
RECURSIVE ReadTomlElements(_, _, _)
\* A TOML value written on the line of its key: a basic string, a boolean,
\* an integer (with or without _), an array, the empty inline table, and
\* otherwise a date-time.
ReadTomlValue(text, i) ==
  LET c == text[i].s IN
  CASE c = "\""          -> ReadString(text, i)
    [] c = "true"        -> [ v |-> JBool(TRUE), next |-> i + 1 ]
    [] c = "false"       -> [ v |-> JBool(FALSE), next |-> i + 1 ]
    [] c \in {"[ ", "["} -> ReadTomlElements(text, i + 1, <<>>)
    [] c = "{ }"         -> [ v |-> JObj(<<>>), next |-> i + 1 ]
    [] OTHER ->
         IF IsNumeral(c) THEN [ v |-> JNum(NumberOf(c)), next |-> i + 1 ]
         ELSE [ v |-> JDate(c), next |-> i + 1 ]

ReadTomlElements(text, i, acc) ==
  IF text[i].s = "]" THEN [ v |-> JArr(acc), next |-> i + 1 ]
  ELSE IF text[i].s \in {"", "\n", " ", ", ", ","}
    THEN ReadTomlElements(text, i + 1, acc)
  ELSE LET r == ReadTomlValue(text, i) IN
       ReadTomlElements(text, r.next, Append(acc, r.v))

\* The dotted key between a header's brackets, as the sequence of its keys.
ReadKeyPath(text, i, close) ==
  LET j    == Closing(text, i, close)
      keys == SelectSeq(SubSeq(text, i, j - 1), LAMBDA c : c.s # ".")
  IN  [ path |-> [ k \in 1..Len(keys) |-> keys[k].s ], next |-> j + 1 ]

\* The table a key of a header's path leads to: a new table, the table
\* under the key, or the last table of the array under the key.
Child(obj, k) ==
  IF ~Has(obj, k) THEN JObj(<<>>)
  ELSE IF Get(obj, k).t = "array" THEN Get(obj, k).kids[Len(Get(obj, k).kids)]
  ELSE Get(obj, k)

\* obj with the table that k leads to replaced.
WithChild(obj, k, table) ==
  IF Has(obj, k) /\ Get(obj, k).t = "array"
    THEN Spread(obj, k, JArr([ Get(obj, k).kids EXCEPT ![Len(Get(obj, k).kids)] = table ]))
    ELSE Spread(obj, k, table)

RECURSIVE Insert(_, _, _, _)
\* key = v in the table at path
Insert(obj, path, key, v) ==
  IF path = <<>> THEN Spread(obj, key, v)
  ELSE WithChild(obj, Head(path), Insert(Child(obj, Head(path)), Tail(path), key, v))

RECURSIVE EnsureTable(_, _)
\* [path]
EnsureTable(obj, path) ==
  IF path = <<>> THEN obj
  ELSE WithChild(obj, Head(path), EnsureTable(Child(obj, Head(path)), Tail(path)))

RECURSIVE AppendTable(_, _)
\* [[path]]
AppendTable(obj, path) ==
  IF Len(path) = 1
    THEN Spread(obj, path[1],
                JArr(Append(IF Has(obj, path[1]) THEN Get(obj, path[1]).kids ELSE <<>>,
                            JObj(<<>>))))
    ELSE WithChild(obj, Head(path), AppendTable(Child(obj, Head(path)), Tail(path)))

RECURSIVE ReadTomlDocument(_, _, _, _)
\* The lines from chunk `from` on, read into doc; path is the table the
\* last header opened.
ReadTomlDocument(text, from, path, doc) ==
  LET i == SkipBlank(text, from) IN
  IF i > Len(text) THEN doc
  ELSE IF text[i].s = "["
    THEN LET h == ReadKeyPath(text, i + 1, "]") IN
         ReadTomlDocument(text, h.next, h.path, EnsureTable(doc, h.path))
  ELSE IF text[i].s = "[["
    THEN LET h == ReadKeyPath(text, i + 1, "]]") IN
         ReadTomlDocument(text, h.next, h.path, AppendTable(doc, h.path))
  ELSE LET r == ReadTomlValue(text, i + 2) IN
       ReadTomlDocument(text, r.next, path, Insert(doc, path, text[i].s, r.v))

\* TOML.parse(text)
ParseToml(text) == ReadTomlDocument(text, 1, <<>>, JObj(<<>>))

\* ------------------------------------------------------------------------
\* Properties
\* ------------------------------------------------------------------------

Returned == inv.pc = "done"

CaughtSomething == Returned /\ resp.thrown # None

\* The code of the envelope in the response.
EnvelopeCode == resp.envelope[1].error[1].code

EnvelopeMessage == resp.envelope[1].error[1].message

\* The ErrorKind the status table of the specification gives a status.
KindOfStatus(status) ==
  CASE status = 400 -> "VALIDATION_ERROR"
    [] status = 401 -> "AUTH_FAILED"
    [] status = 403 -> "PERMISSION_DENIED"
    [] status = 404 -> "NOT_FOUND"
    [] status = 429 -> "RATE_LIMITED"
    [] OTHER        -> "SERVER_ERROR"

\* C1: whenever a handler has caught a ClientResponseError with status s,
\* the classification returned an envelope, and its code is the one the
\* status table gives s (SERVER_ERROR for every status outside
\* 400, 401, 403, 404, 429, such as 500, 503 and 0).
C1_StatusToKind ==
  (CaughtSomething /\ resp.thrown[1].cls = "ClientResponseError")
    => /\ resp.envelope # None
       /\ EnvelopeCode = KindOfStatus(resp.thrown[1].status)

C1_Witness ==
  /\ CaughtSomething
  /\ resp.thrown[1].cls = "ClientResponseError"
  /\ resp.thrown[1].status = 429
  /\ resp.kind = "error"
  /\ EnvelopeCode = "RATE_LIMITED"

\* C2: whatever value a handler's try block threw, the invocation returns
\* a response marked isError whose text renders the envelope; nothing
\* leaves the handler as a rejection, not even a failure raised while the
\* catch clause classifies or renders.
C2_NoFailureEscapes ==
  CaughtSomething
    => /\ resp.kind = "error"
       /\ resp.isError
       /\ resp.envelope # None
       /\ ~format(EnvelopeValue(resp.envelope[1]), inv.fmt).threw
       /\ resp.text = format(EnvelopeValue(resp.envelope[1]), inv.fmt).v

\* C3: the envelope a classification returned is a fixed point of the
\* classification: classifying it again returns that same envelope.
C3_Idempotent ==
  (Returned /\ resp.envelope # None)
    => /\ ~handlePocketBaseError(resp.envelope[1], POCKETBASE_URL).threw
       /\ handlePocketBaseError(resp.envelope[1], POCKETBASE_URL).v = resp.envelope[1]

\* An envelope this layer built from a failure that was not one, and an
\* envelope that was thrown and passed through.
C3_Witness ==
  /\ Returned
  /\ resp.envelope # None
  /\ resp.thrown[1].cls = "ClientResponseError"
  /\ resp.thrown[1].status = 404
  /\ resp.envelope # resp.thrown

\* The value passes the type guard for envelopes.
EnvelopeShaped(v) == ~isErrorResponse(v).threw /\ isErrorResponse(v).v

\* C4 as stated: an envelope-shaped failure is passed through unchanged,
\* also when it is a connectivity TypeError or a ClientResponseError.
C4_EnvelopeFirst ==
  (CaughtSomething /\ EnvelopeShaped(resp.thrown[1]))
    => resp.envelope = resp.thrown

\* C4 amended: the rules are tried in the order connectivity fault, HTTP
\* status, envelope passthrough, generic, and the first that matches wins:
\* an envelope-shaped failure is passed through unchanged only when it is
\* neither a TypeError naming fetch nor a ClientResponseError.
C4_Precedence ==
  (CaughtSomething /\ resp.envelope # None)
    => LET e == resp.thrown[1] IN
       IF e.cls = "TypeError" /\ Includes(e.message, "fetch")
         THEN EnvelopeCode = "CONNECTION_ERROR" /\ resp.envelope # resp.thrown
       ELSE IF e.cls = "ClientResponseError"
         THEN EnvelopeCode = KindOfStatus(e.status) /\ resp.envelope # resp.thrown
       ELSE IF EnvelopeShaped(e)
         THEN resp.envelope = resp.thrown
       ELSE /\ EnvelopeCode = "SERVER_ERROR"
            /\ EnvelopeMessage = (IF InstanceOfError(e) THEN e.message ELSE StringOf(e))

\* An envelope-shaped TypeError naming fetch, classified as a connection
\* error.
C4_Witness ==
  /\ CaughtSomething
  /\ EnvelopeShaped(resp.thrown[1])
  /\ resp.thrown[1].cls = "TypeError"
  /\ resp.kind = "error"
  /\ EnvelopeCode = "CONNECTION_ERROR"

\* C5: when a backend call fails because the backend cannot be reached, in
\* whichever form the client raises that, the response carries a
\* CONNECTION_ERROR envelope whose message contains POCKETBASE_URL.
C5_ConnectivityIsConnectionError ==
  (CaughtSomething /\ resp.thrown[1] \in ConnectivityFailures)
    => /\ resp.envelope # None
       /\ EnvelopeCode = "CONNECTION_ERROR"
       /\ Includes(EnvelopeMessage, UrlText(POCKETBASE_URL))

\* The response is the envelope the admin guard throws.
GuardRefused ==
  /\ resp.kind = "error"
  /\ resp.thrown = Some(AuthRequiredResponse)
  /\ EnvelopeCode = "AUTH_REQUIRED"

\* getClient() threw at the start of the invocation.
ClientUnavailable == inv.startClient = None /\ UrlMissing

\* C6 as stated: an admin-only tool invoked while the credential store
\* holds no admin privilege returns AUTH_REQUIRED, marked isError, and has
\* issued no backend call.
C6_GuardRefuses ==
  (Returned /\ inv.tool \in AdminOnlyTools /\ inv.startAuth # "admin")
    => /\ resp.isError
       /\ resp.envelope # None
       /\ EnvelopeCode = "AUTH_REQUIRED"
       /\ inv.calls = 0

\* C6 amended: an admin-only tool invoked without admin privilege issues
\* no backend call and returns an error response; its envelope is
\* AUTH_REQUIRED when the client can be obtained, and the SERVER_ERROR of
\* getClient() when there is no client and POCKETBASE_URL is missing.
C6_GuardRefusesOrNoClient ==
  (Returned /\ inv.tool \in AdminOnlyTools /\ inv.startAuth # "admin")
    => /\ resp.isError
       /\ resp.envelope # None
       /\ inv.calls = 0
       /\ EnvelopeCode = (IF ClientUnavailable THEN "SERVER_ERROR" ELSE "AUTH_REQUIRED")

\* An admin-only tool refused while a user credential is held.
C6_Witness ==
  /\ Returned
  /\ inv.tool \in AdminOnlyTools
  /\ inv.startAuth = "user"
  /\ GuardRefused
  /\ inv.calls = 0

\* C7: the credential is absent at startup; a step makes it present only
\* when the awaited call of auth_admin or auth_user resolves, makes it
\* absent only when logout runs, and every other step, a rejected
\* authenticate call included, leaves it as it was.
C7_CredentialLifecycle ==
  /\ authStore = "none"
  /\ [][ (authStore' # authStore) =>
           \/ /\ authStore' # "none"
              /\ inv.pc = "await1" /\ inv.tool \in AuthTools
              /\ inv'.pc = "done" /\ resp'.kind = "ok"
           \/ /\ authStore' = "none"
              /\ inv'.tool = "pocketbase_logout" /\ inv'.pc = "done"
              /\ resp'.kind = "ok" ]_vars

\* Logout has cleared a credential an authenticate call had set.
C7_Witness ==
  /\ Returned
  /\ inv.tool = "pocketbase_logout"
  /\ inv.startAuth = "admin"
  /\ authStore = "none"

\* C8 as stated: no invocation issues more than one backend call.
C8_AtMostOneCall == inv.calls <= 1

\* C8 amended: update_collection and delete_collection issue at most two
\* backend calls (the lookup by name, then the update or delete by id);
\* every other tool issues at most one.
C8_AtMostOneOrTwoCalls ==
  inv.calls <= (IF inv.tool \in LookupTools THEN 2 ELSE 1)

C8_Witness ==
  /\ Returned
  /\ inv.tool = "pocketbase_delete_collection"
  /\ inv.calls = 2
  /\ resp.kind = "ok"

\* C9 as stated: an invocation that returned without a backend call ended
\* in the admin guard's AUTH_REQUIRED envelope.
C9_OnlyGuardSkipsBackend ==
  (Returned /\ inv.calls = 0) => GuardRefused

\* C9 amended: an invocation returns without a backend call exactly when
\* the admin guard refused it, or the tool is get_auth_status, logout or
\* get_file_url (which never call the backend), or getClient() threw for
\* want of POCKETBASE_URL; every other invocation has issued a backend
\* call before it returns.
C9_WhoSkipsBackend ==
  Returned =>
    ( inv.calls = 0 <=>
        \/ GuardRefused
        \/ inv.tool \in LocalTools
        \/ ClientUnavailable )

\* An admin-only tool that passed the guard returned after its call.
C9_Witness ==
  /\ Returned
  /\ inv.tool \in AdminOnlyTools
  /\ ~GuardRefused
  /\ inv.calls >= 1

\* The items of a list output.
ItemsOf(output) == Get(output, "items").kids

\* C10: list_records truncates exactly when the first rendering is longer
\* than MAX_RESPONSE_SIZE.  Then the value rendered and returned has the
\* first ceil(n/2) of the n items, _truncated = true and a _message naming
\* n and ceil(n/2), it is rendered once, and it is returned as a success
\* whatever its length; otherwise the first rendering is returned.
C10_TruncateOnce ==
  (Returned /\ inv.tool = "pocketbase_list_records" /\ resp.output # None)
    => LET output == resp.output[1]
           shown  == resp.rendered[1]
           n      == Len(ItemsOf(output))
           half   == IF n % 2 = 0 THEN n \div 2 ELSE n \div 2 + 1
       IN  /\ resp.kind = "ok"
           /\ resp.firstLength = TextLength(format(output, inv.fmt).v)
           /\ resp.text = format(shown, inv.fmt).v
           /\ IF resp.firstLength > 25000
                THEN /\ ItemsOf(shown) = SubSeq(ItemsOf(output), 1, half)
                     /\ Has(shown, "_truncated")
                     /\ Get(shown, "_truncated") = JBool(TRUE)
                     /\ Has(shown, "_message")
                     /\ Get(shown, "_message").s
                          = << "Response truncated from ", ToString(n), " to ",
                               ToString(half),
                               " items. Use pagination or filters to see more." >>
                ELSE /\ shown = output
                     /\ ~Has(shown, "_truncated")
                     /\ ~Has(shown, "_message")

\* A page of three items truncated to two and still over the limit.
C10_Witness ==
  /\ Returned
  /\ inv.tool = "pocketbase_list_records"
  /\ resp.kind = "ok"
  /\ resp.firstLength > 25000
  /\ Len(ItemsOf(resp.output[1])) = 3
  /\ Len(ItemsOf(resp.rendered[1])) = 2
  /\ TextLength(resp.text) > 25000

\* C11: whenever list_records truncates (the first rendering is longer
\* than MAX_RESPONSE_SIZE), the text returned is no longer than that first
\* rendering, whatever the number of items.
C11_TruncatedNoLonger ==
  (Returned /\ inv.tool = "pocketbase_list_records" /\ resp.kind = "ok"
     /\ resp.firstLength > MAX_RESPONSE_SIZE)
    => TextLength(resp.text) <= resp.firstLength

\* C12: every successful response of a list tool (list_records,
\* list_collections, list_logs) whose rendering is longer than
\* MAX_RESPONSE_SIZE was truncated: the value returned has the first
\* ceil(n/2) items and the _truncated flag and _message.
C12_EveryListTruncates ==
  (Returned /\ inv.tool \in PagedListTools /\ resp.kind = "ok"
     /\ resp.firstLength > MAX_RESPONSE_SIZE)
    => /\ Has(resp.rendered[1], "_truncated")
       /\ Has(resp.rendered[1], "_message")
       /\ Len(ItemsOf(resp.rendered[1])) = (Len(ItemsOf(resp.output[1])) + 1) \div 2

\* C13: the output of list_records for a page p of t pages with perPage n
\* has hasMore = (p < t); it has the key nextOffset, with the value p * n,
\* exactly when hasMore is true, and the text returned, in either format,
\* names nextOffset exactly then.
C13_HasMoreNextOffset ==
  (Returned /\ inv.tool = "pocketbase_list_records" /\ resp.kind = "ok")
    => LET output == resp.output[1]
           p == Get(output, "page").n
           n == Get(output, "perPage").n
           t == Get(output, "totalPages").n
       IN  /\ Get(output, "hasMore") = JBool(p < t)
           /\ Has(output, "nextOffset") <=> (p < t)
           /\ Has(output, "nextOffset") => Get(output, "nextOffset") = JNum(p * n)
           /\ Has(resp.rendered[1], "nextOffset") <=> (p < t)
           /\ TextIncludes(resp.text, "nextOffset") <=> (p < t)

\* The last page in JSON without nextOffset, after a page that had it.
C13_Witness ==
  /\ Returned
  /\ inv.tool = "pocketbase_list_records"
  /\ resp.kind = "ok"
  /\ inv.fmt = "json"
  /\ Get(resp.output[1], "page") = JNum(2)
  /\ Get(resp.output[1], "totalPages") = JNum(2)
  /\ Get(resp.output[1], "hasMore") = JBool(FALSE)
  /\ ~TextIncludes(resp.text, "nextOffset")

\* A page with more pages after it: nextOffset = page * perPage.
C13_WitnessMore ==
  /\ Returned
  /\ inv.tool = "pocketbase_list_records"
  /\ resp.kind = "ok"
  /\ Get(resp.output[1], "page") = JNum(1)
  /\ Get(resp.output[1], "perPage") = JNum(30)
  /\ Get(resp.output[1], "totalPages") = JNum(2)
  /\ Get(resp.output[1], "nextOffset") = JNum(30)
  /\ TextIncludes(resp.text, "nextOffset")

\* format(data, 'toml') and format(data, 'json') have completed.
CompactDone == formatted[Some("toml")] # None

StructuredDone == formatted[Some("json")] # None

\* format(data, 'toml') returned a text, and the text.
CompactReturned == CompactDone /\ ~formatted[Some("toml")][1].threw

CompactText == formatted[Some("toml")][1].v

StructuredReturned == StructuredDone /\ ~formatted[Some("json")][1].threw

StructuredText == formatted[Some("json")][1].v

\* C14: for every value that is not a mapping (a scalar, an array, a
\* timestamp, null), format(data, 'toml') returns a text with the
\* top-level entry `value = ...`.
C14_WrapsNonMapping ==
  (CompactDone /\ data.t # "object")
    => /\ CompactReturned
       /\ Has(ParseToml(CompactText), "value")

RECURSIVE AbsentOmittedNullKept(_, _)
\* In the mapping `read`, read back from the text written for d: no key
\* for an entry of d that is undefined, the value '' for an entry that is
\* null, and the same for the mappings below, in entries and in arrays.
AbsentOmittedNullKept(d, read) ==
  CASE d.t = "object" ->
         /\ read.t = "object"
         /\ \A i \in 1..Len(d.kids) :
              LET e == d.kids[i] IN
              CASE e.v.t = "undefined" -> ~Has(read, e.k)
                [] e.v.t = "null" -> Has(read, e.k) /\ Get(read, e.k) = JStr(<<>>)
                [] OTHER -> Has(read, e.k) /\ AbsentOmittedNullKept(e.v, Get(read, e.k))
    [] d.t = "array" ->
         /\ read.t = "array"
         /\ Len(read.kids) = Len(d.kids)
         /\ \A i \in 1..Len(d.kids) : AbsentOmittedNullKept(d.kids[i], read.kids[i])
    [] OTHER -> TRUE

C16_NeverThrows ==
  \A fmt \in OutputFormat :
    formatted[Some(fmt)] # None => ~formatted[Some(fmt)][1].threw

RECURSIVE TimestampsAsIsoText(_, _, _)
\* Wherever d holds a timestamp, the value read back from the TOML text
\* (toml) is the string of its ISO-8601 text, and so is the value read
\* back from the JSON text (json).
TimestampsAsIsoText(d, toml, json) ==
  CASE d.t = "date" -> toml = JStr(d.s) /\ json = toml
    [] d.t = "object" ->
         \A i \in 1..Len(d.kids) :
           LET e == d.kids[i] IN
           e.v.t \in {"date", "object", "array"}
             => /\ Has(toml, e.k)
                /\ Has(json, e.k)
                /\ TimestampsAsIsoText(e.v, Get(toml, e.k), Get(json, e.k))
    [] d.t = "array" ->
         /\ Len(toml.kids) = Len(d.kids)
         /\ Len(json.kids) = Len(d.kids)
         /\ \A i \in 1..Len(d.kids) :
              TimestampsAsIsoText(d.kids[i], toml.kids[i], json.kids[i])
    [] OTHER -> TRUE

\* C17: for a mapping, every timestamp in it, at any depth, is written in
\* the TOML text as the string of its ISO-8601 text, never as a TOML
\* date-time, and reads back from the TOML text as it reads back from the
\* JSON text.
C17_TimestampsAsIsoText ==
  (CompactReturned /\ StructuredReturned /\ data.t = "object")
    => TimestampsAsIsoText(data, ParseToml(CompactText), ParseJson(StructuredText))

\* A timestamp three levels down and one at the top, written in both
\* formats.
C17_Witness ==
  /\ CompactReturned
  /\ StructuredReturned
  /\ data = JObj(<< Entry("a", JObj(<< Entry("c", JObj(<< Entry("d", Timestamp) >>)) >>)),
                    Entry("b", Timestamp) >>)
  /\ Get(ParseToml(CompactText), "b") = JStr(Timestamp.s)
  /\ Get(Get(Get(ParseJson(StructuredText), "a"), "c"), "d") = JStr(Timestamp.s)

\* C18: format(data, 'toml') returns '' for the empty mapping and for a
\* mapping whose every entry is undefined.
C18_EmptyMapping ==
  (CompactDone /\ data.t = "object"
     /\ \A i \in 1..Len(data.kids) : data.kids[i].v.t = "undefined")
    => /\ CompactReturned
       /\ CompactText = <<>>

\* A mapping of two undefined entries, written as ''.
C18_Witness ==
  /\ CompactReturned
  /\ data = JObj(<< Entry("a", JUndefined), Entry("b", JUndefined) >>)
  /\ CompactText = <<>>

\* C19: the envelope of every response marked isError has under `error` an
\* object whose code is one of the eight ErrorCodes and whose keys are
\* among code, message, suggestion and fieldErrors, whatever was thrown,
\* envelopes that were passed through included.
C19_EnvelopeWellFormed ==
  (Returned /\ resp.kind = "error")
    => LET e == resp.envelope[1].error[1] IN
       /\ e.t = "object"
       /\ e.code \in ErrorCode
       /\ {"code", "message"} \subseteq e.keys
       /\ e.keys \subseteq {"code", "message", "suggestion", "fieldErrors"}

\* The fixed message of the kind a status maps to.
DefaultMessage(status) ==
  CASE status = 400 -> <<"Invalid request data">>
    [] status = 401 -> <<"Authentication failed: Invalid credentials">>
    [] status = 403 -> <<"Permission denied">>
    [] status = 404 -> <<"Resource not found">>
    [] status = 429 -> <<"Rate limit exceeded">>
    [] OTHER        -> <<"Server error (", ToString(status), ")">>

\* A handler caught a ClientResponseError and classified it.
CaughtHttpFailure ==
  /\ CaughtSomething
  /\ resp.thrown[1].cls = "ClientResponseError"
  /\ resp.envelope # None

\* C20 as stated: for every status, the envelope's message is the message
\* of the error body when the body has a non-empty one, and the fixed
\* message of the kind otherwise.
C20_BodyMessageOverrides ==
  CaughtHttpFailure
    => LET e == resp.thrown[1] IN
       EnvelopeMessage = (IF TruthyStr(e.data.message) THEN e.data.message[1]
                          ELSE DefaultMessage(e.status))

\* C20 amended: for the statuses 401 and 429 the envelope's message is the
\* fixed message of the kind, whatever the body says; for every other
\* status it is the body's message when the body has a non-empty one, and
\* the fixed message of the kind otherwise.
C20_MessageByStatus ==
  CaughtHttpFailure
    => LET e == resp.thrown[1] IN
       EnvelopeMessage = (IF e.status \notin {401, 429} /\ TruthyStr(e.data.message)
                            THEN e.data.message[1]
                            ELSE DefaultMessage(e.status))

\* A 404 whose body has a message, and the envelope carries it.
C20_Witness ==
  /\ CaughtHttpFailure
  /\ resp.thrown[1].status = 404
  /\ resp.thrown[1].data.message = Some(<<"Something went wrong.">>)
  /\ EnvelopeMessage = <<"Something went wrong.">>

\* C21: when a handler has caught a ClientResponseError with status 400
\* whose body carries per-field errors, the envelope has a fieldErrors key
\* that maps each field name of the body, and no other, to the message of
\* that field; for every other status the envelope has no fieldErrors key,
\* whatever the body carries.
C21_FieldErrorsOnly400 ==
  (CaughtSomething /\ resp.thrown[1].cls = "ClientResponseError")
    => /\ resp.envelope # None
       /\ LET e    == resp.envelope[1].error[1]
               body == resp.thrown[1].data.data
           IN  IF resp.thrown[1].status # 400
                 THEN "fieldErrors" \notin e.keys
               ELSE body # None
                      => /\ "fieldErrors" \in e.keys
                         /\ e.fieldErrors # None
                         /\ Len(e.fieldErrors[1]) = Len(body[1])
                         /\ \A i \in 1..Len(body[1]) :
                              /\ e.fieldErrors[1][i].k = body[1][i].k
                              /\ e.fieldErrors[1][i].v = body[1][i].v.message

\* A 400 whose body names two fields, returned with both messages.
C21_Witness ==
  /\ CaughtSomething
  /\ resp.thrown[1].cls = "ClientResponseError"
  /\ resp.thrown[1].status = 400
  /\ resp.thrown[1].data.data # None
  /\ Len(resp.thrown[1].data.data[1]) = 2
  /\ resp.kind = "error"
  /\ "fieldErrors" \in resp.envelope[1].error[1].keys
  /\ Len(resp.envelope[1].error[1].fieldErrors[1]) = 2

\* A 403 whose body names a field, returned without fieldErrors.
C21_WitnessOther ==
  /\ CaughtSomething
  /\ resp.thrown[1].cls = "ClientResponseError"
  /\ resp.thrown[1].status = 403
  /\ resp.thrown[1].data.data # None
  /\ Len(resp.thrown[1].data.data[1]) = 1
  /\ resp.kind = "error"
  /\ "fieldErrors" \notin resp.envelope[1].error[1].keys

\* The failure's text: error.message for an Error, String(value) otherwise.
TextOfFailure(v) == IF InstanceOfError(v) THEN v.message ELSE StringOf(v)

\* A non-null object whose error property is an object that has both a
\* code key and a message key.
HasCodeAndMessage(v) ==
  /\ TypeOfObject(v)
  /\ v.cls # "Null"
  /\ v.error # None
  /\ v.error[1].t = "object"
  /\ {"code", "message"} \subseteq v.error[1].keys

\* The classification came to its third rule: the value is neither a
\* TypeError naming fetch nor a ClientResponseError.
ReachedTypeGuard(v) == ~IsConnectionError(v) /\ v.cls # "ClientResponseError"

\* C22: whenever a handler has caught a value that is neither an envelope,
\* nor a connectivity fault, nor a ClientResponseError, the classification
\* returned a SERVER_ERROR envelope whose message is the failure's text:
\* the message of an Error, String(value) of any other value.
C22_GenericIsServerError ==
  (CaughtSomething /\ ReachedTypeGuard(resp.thrown[1])
     /\ resp.thrown[1] \notin ConnectivityFailures
     /\ ~HasCodeAndMessage(resp.thrown[1]))
    => /\ resp.envelope # None
       /\ EnvelopeCode = "SERVER_ERROR"
       /\ EnvelopeMessage = TextOfFailure(resp.thrown[1])

\* C23: whenever the classification applied the type guard to the value a
\* handler caught, isErrorResponse returned, without throwing, true exactly
\* when the value is a non-null object whose error property is an object
\* with both a code key and a message key, and false for every other
\* value, an error property that is null included.
C23_TypeGuardTotal ==
  (CaughtSomething /\ ReachedTypeGuard(resp.thrown[1]))
    => /\ ~isErrorResponse(resp.thrown[1]).threw
       /\ isErrorResponse(resp.thrown[1]).v = HasCodeAndMessage(resp.thrown[1])

\* The two completed calls ended alike: both threw the same value, or both
\* returned the same text.
SameOutcome(a, b) == a.threw = b.threw /\ a.v = b.v

\* C24: a call of format with the argument 'json' ends as
\* formatToJson(data) does, and a call with 'toml', with the argument
\* omitted, or with a string that names no format ends as
\* formatToToml(data) does.
C24_JsonOrElseToml ==
  \A arg \in FormatArguments :
    formatted[arg] # None
      => IF arg = Some("json")
           THEN SameOutcome(formatted[arg][1], formatToJson(data))
           ELSE SameOutcome(formatted[arg][1], formatToToml(data))

\* A mapping was formatted with the argument omitted, with an unknown
\* format and with 'json': the first two texts are the compact one, and it
\* is not the structured one.
C24_Witness ==
  /\ data.t = "object"
  /\ Len(data.kids) = 2
  /\ formatted[None] # None
  /\ formatted[Some("yaml")] # None
  /\ formatted[Some("json")] # None
  /\ ~formatted[None][1].threw
  /\ formatted[None][1] = formatted[Some("yaml")][1]
  /\ formatted[None][1] = formatToToml(data)
  /\ ~formatted[Some("json")][1].threw
  /\ formatted[Some("json")][1] # formatted[None][1]

\* What a reader of the returned text gets: JSON.parse or TOML.parse.
ReadBack(text, fmt) == IF fmt = "json" THEN ParseJson(text) ELSE ParseToml(text)

\* How a null comes back: null from the structured text, '' from the
\* compact one.
NullReadBack(fmt) == IF fmt = "json" THEN JNull ELSE JStr(<<>>)

\* This step is a whole invocation of one of `tools`: it starts and returns.
InvokedAndReturned(tools) == Ready /\ inv'.pc = "done" /\ inv'.tool \in tools

\* The response of this step reports that nobody is authenticated.
ReportsLoggedOut ==
  /\ resp'.kind = "ok"
  /\ LET r == ReadBack(resp'.text, inv'.fmt) IN
     /\ Get(r, "isAuthenticated") = JBool(FALSE)
     /\ Get(r, "authType") = NullReadBack(inv'.fmt)
     /\ Get(r, "model") = NullReadBack(inv'.fmt)

\* What the claim says of a step taken while logged out.
LoggedOutStep ==
  /\ (Ready /\ inv'.tool = "pocketbase_get_auth_status")
       => inv'.pc = "done" /\ ReportsLoggedOut
  /\ (Ready /\ inv'.tool \in AdminOnlyTools)
       => inv'.pc = "done" /\ inv'.calls = 0 /\ GuardRefused'
  /\ (Ready /\ inv'.tool = "pocketbase_logout")
       => /\ inv'.pc = "done"
          /\ resp'.kind = "ok"
          /\ authStore' = authStore
          /\ pbClient' = pbClient
          /\ POCKETBASE_URL' = POCKETBASE_URL

\* C25 as stated: once a logout invocation has returned, the next
\* get_auth_status reports isAuthenticated = false, authType null and
\* model null, the next admin-only tool returns AUTH_REQUIRED, and the next
\* logout succeeds and changes nothing.
C25_AfterLogoutReturned ==
  [][ (Returned /\ inv.tool = "pocketbase_logout") => LoggedOutStep ]_vars

\* C25 amended: a logout that succeeded leaves a client without a
\* credential; that state lasts until an auth_admin or auth_user call
\* resolves, and while it lasts get_auth_status reports
\* isAuthenticated = false, authType null and model null, every admin-only
\* tool returns AUTH_REQUIRED without a backend call, and a logout succeeds
\* and changes neither the client nor the credential.
C25_AfterLogoutSucceeded ==
  /\ []((Returned /\ inv.tool = "pocketbase_logout" /\ resp.kind = "ok")
          => (authStore = "none" /\ pbClient # None))
  /\ [][ (authStore = "none" /\ pbClient # None)
           => /\ pbClient' # None
              /\ authStore' # "none"
                   => /\ inv.pc = "await1" /\ inv.tool \in AuthTools
                      /\ inv'.pc = "done" /\ resp'.kind = "ok"
              /\ LoggedOutStep ]_vars

\* A logout that found a client and no credential, and succeeded.
C25_Witness ==
  /\ Returned
  /\ inv.tool = "pocketbase_logout"
  /\ inv.startAuth = "none"
  /\ inv.startClient # None
  /\ resp.kind = "ok"
  /\ authStore = "none"
  /\ pbClient = inv.startClient

\* An admin-only tool refused where there is a client and no credential.
C25_WitnessRefused ==
  /\ Returned
  /\ inv.tool \in AdminOnlyTools
  /\ inv.startAuth = "none"
  /\ inv.startClient # None
  /\ GuardRefused
  /\ authStore = "none"

\* C26: whichever way concurrent invocations interleave, every backend
\* call an admin-only tool has outstanding was issued while the credential
\* store held admin privilege: the first call of any such tool, and the
\* update or delete that follows the lookup of update_collection and
\* delete_collection, also when a logout or a successful auth_user ran
\* in between.
C26_AdminCallsHoldAdmin ==
  \A s \in Slots :
    (pending[s].tool \in AdminOnlyTools /\ pending[s].pc \in {"await1", "await2"})
      => pending[s].token = "admin"

\* This step is the awaited call of `tool` resolving and the handler
\* returning its success.
Succeeded(tool) ==
  /\ inv.pc = "await1" /\ inv.tool = tool
  /\ inv'.pc = "done" /\ resp'.kind = "ok"

LookingUp == inv.pc = "await1" /\ inv.tool \in LookupTools

\* C28: update_collection and delete_collection issue their update or
\* delete only in the step in which the lookup by name resolves, and for
\* the id the lookup resolved with; when the lookup rejects, the
\* invocation ends with one backend call issued and returns the classified
\* error, marked isError.
C28_MutationAfterLookup ==
  [][ /\ (inv'.calls = 2 /\ inv.calls # 2)
           => /\ LookingUp
              /\ inv'.pc = "await2"
              /\ inv'.existing # None
              /\ inv'.target = inv'.existing
      /\ (LookingUp /\ inv'.pc = "done")
           => /\ inv'.calls = 1
              /\ resp'.kind = "error"
              /\ resp'.isError
              /\ resp'.envelope # None ]_vars

\* The part of C28 on the order and the target of the calls: a second
\* call is issued only when the lookup resolves, for the id it resolved
\* with, and a lookup that rejects ends the invocation with one call.
C28_OrderAndTarget ==
  [][ /\ (inv'.calls = 2 /\ inv.calls # 2)
           => /\ LookingUp
              /\ inv'.pc = "await2"
              /\ inv'.existing # None
              /\ inv'.target = inv'.existing
      /\ (LookingUp /\ inv'.pc = "done") => inv'.calls = 1 ]_vars

\* The keys of an object.
KeysOf(obj) == { obj.kids[j].k : j \in 1..Len(obj.kids) }

\* The fields of a list output that truncation is to leave alone.
PageFields == { "page", "perPage", "totalItems", "totalPages", "hasMore", "nextOffset" }

\* C29: when list_records has truncated, the value it rendered has the
\* keys of the untruncated output and _truncated and _message, each of
\* page, perPage, totalItems, totalPages, hasMore and nextOffset is there
\* exactly when the output has it and with the same value, the items are
\* the first ceil(n/2) of the output's n items in their order, and the
\* output still is what was rendered first: all n items, none of the two
\* added keys.
C29_TruncationFrame ==
  (Returned /\ inv.tool = "pocketbase_list_records" /\ resp.output # None
     /\ resp.firstLength > MAX_RESPONSE_SIZE)
    => LET output == resp.output[1]
           shown  == resp.rendered[1]
           n      == Len(ItemsOf(output))
       IN  /\ KeysOf(shown) = KeysOf(output) \cup { "_truncated", "_message" }
           /\ \A k \in PageFields :
                /\ Has(shown, k) = Has(output, k)
                /\ Has(output, k) => Get(shown, k) = Get(output, k)
           /\ ItemsOf(shown) = SubSeq(ItemsOf(output), 1, (n + 1) \div 2)
           /\ { "_truncated", "_message" } \cap KeysOf(output) = {}
           /\ TextLength(format(output, inv.fmt).v) = resp.firstLength

\* A page of three items with a next page, truncated to two items.
C29_Witness ==
  /\ Returned
  /\ inv.tool = "pocketbase_list_records"
  /\ resp.kind = "ok"
  /\ resp.firstLength > MAX_RESPONSE_SIZE
  /\ Has(resp.output[1], "nextOffset")
  /\ Has(resp.rendered[1], "nextOffset")
  /\ Get(resp.rendered[1], "hasMore") = JBool(TRUE)
  /\ Len(ItemsOf(resp.output[1])) = 3
  /\ Len(ItemsOf(resp.rendered[1])) = 2

\* A call of getClient() has completed in this step with another outcome
\* than the call before it.
GetClientCompleted == pb' # pb

\* C30: over any sequence of getClient and resetClient calls the singleton
\* is the client constructed last or there is none, and it is replaced
\* only by way of a reset; getClient returns the singleton without
\* touching any credential while there is one, throws and constructs
\* nothing while there is none and POCKETBASE_URL is unset or empty, and
\* otherwise constructs one client, with no credential, and returns it;
\* resetClient clears the credential of the client it drops.
C30_OneLiveClient ==
  /\ [](/\ pbClient # None => pbClient[1].id = Len(clients)
        /\ UrlMissing => (pbClient = None /\ clients = << >>)
        /\ (pb # None /\ pb[1].threw) => UrlMissing)
  /\ [][ /\ (pbClient # None /\ pbClient' # None) => pbClient' = pbClient
         /\ GetClientCompleted
              => IF pbClient # None
                   THEN /\ ~pb'[1].threw
                        /\ pb'[1].v = pbClient[1]
                        /\ pbClient' = pbClient
                        /\ clients' = clients
                 ELSE IF UrlMissing
                   THEN /\ pb'[1].threw
                        /\ pbClient' = None
                        /\ clients' = clients
                 ELSE /\ ~pb'[1].threw
                      /\ pbClient' # None
                      /\ pb'[1].v = pbClient'[1]
                      /\ pbClient'[1].id = Len(clients) + 1
                      /\ clients' = Append(clients, "none")
         /\ (pbClient # None /\ pbClient' = None)
              => /\ clients'[pbClient[1].id] = "none"
                 /\ Len(clients') = Len(clients) ]_vars

\* After a reset getClient has returned a second client; the first has no
\* credential, and an admin credential was stored through the second.
C30_Witness ==
  /\ Len(clients) = 2
  /\ pbClient # None
  /\ pbClient[1].id = 2
  /\ pb = Some(Return(pbClient[1]))
  /\ clients[1] = "none"
  /\ clients[2] = "admin"
====
